---- MODULE Spec2Model ----
(***************************************************************************)
(* WiseTrade: a single-asset, event-driven backtesting engine.             *)
(*                                                                         *)
(* The module models                                                       *)
(*   - core/portfolio.py   Portfolio (cash/position ledger),               *)
(*   - core/engine.py      Engine.run (the replay loop),                   *)
(*   - strategies/base.py  Strategy (lifecycle hooks, rolling history),    *)
(*   - datafeed/db_feed.py SQLiteFeed.__next__ (the bar iterator),         *)
(*   - core/analyzer.py    Analyzer (metrics of a finished Portfolio).     *)
(*                                                                         *)
(* Python floats are modelled as binary floating-point numbers with a      *)
(* reduced significand: a value is an integer count of 2^-FracBits, and    *)
(* every arithmetic result is rounded to the nearest value that has at     *)
(* most Precision significant bits, ties to even (IEEE 754 round-to-       *)
(* nearest-even, which is what Python's float +, -, *, / do with a 53 bit  *)
(* significand).                                                           *)
(*                                                                         *)
(* The specifications:                                                     *)
(*   Spec          any sequence of Portfolio.buy/sell/sell_all/update calls*)
(*                 on one Portfolio, with arbitrary arguments;             *)
(*   SpecEngine    one Engine.run() over a feed of 0..MaxBars bars, with a *)
(*                 strategy whose next() places up to MaxOrdersPerStep     *)
(*                 orders per bar;                                         *)
(*   SpecFeed      a SQLiteFeed driven by arbitrary calls;                 *)
(*   SpecRuns      run() called repeatedly on one Engine with the concrete *)
(*                 strategy classes;                                       *)
(*   SpecMulti     Engine.run_multiple over a list of symbols;             *)
(*   SpecStrategy  a Strategy driven by update_bar, sma and atr calls;     *)
(*   SpecTrades    a Portfolio and a caller holding the list that          *)
(*                 Portfolio.trades returned;                              *)
(*   SpecAnalyzer  Analyzer(portfolio) over a Portfolio with any trade log;*)
(*   SpecAtrExit   one Engine.run() with SMA_ATR_Exit over bars with highs *)
(*                 and lows;                                               *)
(*   SpecReset     Spec with Portfolio.reset among the calls.              *)
(***************************************************************************)
EXTENDS Integers, Sequences, FiniteSets, TLC

VARIABLES
    \* ---- Portfolio (core/portfolio.py) --------------------------------
    initial_cash,     \* Portfolio.initial_cash
    min_trade_size,   \* Portfolio.min_trade_size
    cash,             \* Portfolio.cash
    position,         \* Portfolio.position
    entry_price,      \* Portfolio.entry_price
    history,          \* Portfolio._history : sequence of <<datetime, equity>>
    trades,           \* Portfolio._trades  : sequence of trade records
    \* ---- observation of the last Portfolio call ------------------------
    last,             \* the call, its arguments, the state before it, its result
    nops,             \* number of calls the driver of Spec or SpecFeed has made
    \* ---- the bars table (database/schema.py) ---------------------------
    db_bars,          \* per symbol, the stored bars: datetime -> close
    \* ---- Feed (datafeed/db_feed.py) ------------------------------------
    feed_symbol,      \* SQLiteFeed.symbol          (None while there is no feed)
    feed_start,       \* SQLiteFeed.start_datetime  (None or a datetime)
    feed_end,         \* SQLiteFeed.end_datetime    (None or a datetime)
    feed_rows,        \* the rows the feed's query selects, in query order
    feed_pos,         \* how many rows the cursor has fetched
    feed_open,        \* SQLiteFeed.cursor and SQLiteFeed.conn are not None
    feed_log,         \* the calls the driver made on the feed, with their outcomes
    \* ---- Strategy (strategies/*.py) ------------------------------------
    lookback,         \* Strategy._lookback
    strat_bar,        \* Strategy.bar      (None or a bar)
    strat_history,    \* Strategy.history  (deque(maxlen = _lookback))
    strat_fields,     \* the fields a concrete strategy class adds
    \* ---- Engine (core/engine.py) ---------------------------------------
    strategy_class,   \* Engine.strategy_class
    strategy_params,  \* Engine.strategy_params
    \* ---- Engine.run (core/engine.py) -----------------------------------
    pc,               \* position inside Engine.run
    bar,              \* the loop variable `bar`           (None or a bar)
    bar_count,        \* the local bar_count
    last_bar,         \* the local last_bar                (None or a bar)
    orders,           \* orders placed so far by the running next(bar)
    calls,            \* calls Engine.run has made, in order
    filled_at,        \* per trade record: the number of the bar in whose next() it
                      \* was filled, 0 when filled outside next()
    analyzer,         \* the Analyzer run() returns        (None or a record)
    runs,             \* what the earlier run() calls on this Engine left behind
    multi,            \* Engine.run_multiple: its arguments and locals
    \* ---- callers of the query methods ---------------------------------
    helper_log,       \* the calls a driver made on a Strategy, with their results
    snap,             \* a list a caller got from Portfolio.trades
    replay            \* Analyzer._calculate_metrics: the locals of its trade replay

pvars == <<initial_cash, min_trade_size, cash, position, entry_price, history, trades>>
fvars == <<feed_rows, feed_pos, feed_open>>
svars == <<lookback, strat_bar, strat_history, strat_fields>>
\* what no action of Engine.run changes: the stored bars, the feed's query, the
\* driver's log of feed calls, the Engine's configuration, the other runs
\* what belongs to the callers of the query methods
cvars == <<helper_log, snap, replay>>
xvars == <<db_bars, feed_symbol, feed_start, feed_end, feed_log, strategy_class,
           strategy_params, runs, multi, cvars>>
evars == <<pc, bar, bar_count, last_bar, orders, calls, filled_at, analyzer>>
vars  == <<pvars, last, nops, fvars, svars, evars, xvars>>

-----------------------------------------------------------------------------
(* Bounds of the model *)

\* significand width of the modelled float (Python: 53)
Precision == 4
\* fractional bits of the smallest modelled magnitude: 1.0 is 2^FracBits units
FracBits == 4
\* Portfolio calls in one behaviour of Spec
MaxOps == 4
\* bars stored for the feed's symbol
MaxBars == 2
\* orders one next(bar) may place
MaxOrdersPerStep == 2

-----------------------------------------------------------------------------
(* Python values *)

\* Optional[T]: None is the empty tuple, a present value x is <<x>>
None == <<>>
Some(x) == <<x>>

Min(a, b) == IF a <= b THEN a ELSE b
Max(a, b) == IF a >= b THEN a ELSE b
Abs(x) == IF x < 0 THEN -x ELSE x

-----------------------------------------------------------------------------
(* Floating point: values are integers counting units of 2^-FracBits *)

Unit == 2 ^ FracBits
Pow2P == 2 ^ Precision

\* n/d rounded to the nearest integer, ties to the even one (n >= 0, d > 0)
RoundHalfEven(n, d) ==
    LET f == n \div d
        r == n % d
    IN  IF 2 * r < d THEN f
        ELSE IF 2 * r > d THEN f + 1
        ELSE IF f % 2 = 0 THEN f ELSE f + 1

\* the spacing of representable values around n/d: the least power of two q
\* with n/d < 2^Precision * q
RECURSIVE Quantum(_, _, _)
Quantum(n, d, q) == IF n < d * Pow2P * q THEN q ELSE Quantum(n, d, 2 * q)

\* the float nearest to the rational n/d (in units), d > 0
Round(n, d) ==
    LET m == Abs(n)
        q == Quantum(m, d, 1)
        v == q * RoundHalfEven(m, d * q)
    IN  IF n < 0 THEN -v ELSE v

IsFloat(x) == Round(x, 1) = x

\* float literal n/d, e.g. Flt(1, 2) is 0.5
Flt(n, d) == Round(n * Unit, d)

FAdd(a, b) == Round(a + b, 1)
FSub(a, b) == Round(a - b, 1)
FMul(a, b) == Round(a * b, Unit)
\* a / b for b > 0 (every division of the modelled code is guarded by b > 0)
FDiv(a, b) == Round(a * Unit, b)

\* round(x, ndigits): the multiple of 10^-ndigits nearest to x (ties to even),
\* then the float nearest to that decimal
PyRound(x, ndigits) ==
    LET k == 10 ^ ndigits
        m == Abs(x)
        dec == RoundHalfEven(m * k, Unit)
        v == Round(dec * Unit, k)
    IN  IF x < 0 THEN -v ELSE v

-----------------------------------------------------------------------------
(* database/schema.py: Bar *)

Bar(dt, close) ==
    [symbol |-> "SYM", datetime |-> dt, open |-> close, high |-> close,
     low |-> close, close |-> close, volume |-> 0]

-----------------------------------------------------------------------------
(* core/portfolio.py: Portfolio *)

\* Portfolio.__init__: the state of a fresh Portfolio
PortfolioInit(ic, mts) ==
    /\ min_trade_size' = mts
    /\ initial_cash' = ic
    /\ cash' = ic
    /\ position' = 0
    /\ entry_price' = 0
    /\ history' = <<>>
    /\ trades' = <<>>

\* what a caller observes of a call: its name, arguments and result, and the
\* state the call started from
Observe(op, args, ret) ==
    [op |-> op, args |-> args, ret |-> ret,
     cash |-> cash, position |-> position, entry_price |-> entry_price,
     history |-> history, trades |-> trades]

\* a BUY record that books the price of one unit as the cost
BuyRecord_UnitCost(actual_size, price, cost) ==
    [datetime |-> None, type |-> "BUY", size |-> PyRound(actual_size, 6),
     price |-> price, cost |-> price]

\* a SELL record stamped when it is written
SellRecord_Stamped(sellable, price, proceeds) ==
    [datetime |-> Some(0), type |-> "SELL", size |-> PyRound(sellable, 6),
     price |-> price, proceeds |-> proceeds]

\* the records buy (lines 53-59) and sell (lines 77-83) append
BuyRecord(actual_size, price, cost) ==
    [datetime |-> None, type |-> "BUY", size |-> PyRound(actual_size, 6),
     price |-> price, cost |-> cost]

SellRecord(sellable, price, proceeds) ==
    [datetime |-> None, type |-> "SELL", size |-> PyRound(sellable, 6),
     price |-> price, proceeds |-> proceeds]

\* Portfolio.buy without the min_trade_size check of lines 43-44
Buy_NoMinimum(size, price) ==
    IF size <= 0 \/ price <= 0
    THEN UNCHANGED <<pvars>>
    ELSE LET max_affordable == IF price > 0 THEN FDiv(cash, price) ELSE 0
             actual_size == Min(size, max_affordable)
             cost == FMul(actual_size, price)
         IN  /\ cash' = FSub(cash, cost)
             /\ position' = FAdd(position, actual_size)
             /\ entry_price' = price
             /\ trades' = Append(trades, BuyRecord(actual_size, price, cost))
             /\ UNCHANGED <<initial_cash, min_trade_size, history>>

\* Portfolio.buy(size, price)
Buy(size, price) ==
    IF size <= 0 \/ price <= 0
    THEN UNCHANGED <<pvars>>
    ELSE LET max_affordable == IF price > 0 THEN FDiv(cash, price) ELSE 0
             desired_size == Min(size, max_affordable)
         IN  IF desired_size < min_trade_size
             THEN UNCHANGED <<pvars>>
             ELSE LET actual_size == desired_size
                      cost == FMul(actual_size, price)
                  IN  /\ cash' = FSub(cash, cost)
                      /\ position' = FAdd(position, actual_size)
                      /\ entry_price' = price
                      /\ trades' = Append(trades, BuyRecord(actual_size, price, cost))
                      /\ UNCHANGED <<initial_cash, min_trade_size, history>>

\* Portfolio.sell selling the requested size, not min(size, position)
Sell_NoClamp(size, price) ==
    IF size <= 0 \/ price <= 0 \/ position <= 0
    THEN UNCHANGED <<pvars>>
    ELSE LET sellable == size
         IN  IF sellable < min_trade_size
             THEN UNCHANGED <<pvars>>
             ELSE LET proceeds == FMul(sellable, price)
                      remaining == FSub(position, sellable)
                  IN  /\ cash' = FAdd(cash, proceeds)
                      /\ IF remaining < min_trade_size
                         THEN position' = 0 /\ entry_price' = 0
                         ELSE position' = remaining /\ UNCHANGED entry_price
                      /\ trades' = Append(trades, SellRecord(sellable, price, proceeds))
                      /\ UNCHANGED <<initial_cash, min_trade_size, history>>

\* Portfolio.sell without the dust snap of lines 73-75
Sell_NoSnap(size, price) ==
    IF size <= 0 \/ price <= 0 \/ position <= 0
    THEN UNCHANGED <<pvars>>
    ELSE LET sellable == Min(size, position)
         IN  IF sellable < min_trade_size
             THEN UNCHANGED <<pvars>>
             ELSE LET proceeds == FMul(sellable, price)
                  IN  /\ cash' = FAdd(cash, proceeds)
                      /\ position' = FSub(position, sellable)
                      /\ trades' = Append(trades, SellRecord(sellable, price, proceeds))
                      /\ UNCHANGED <<initial_cash, min_trade_size, history, entry_price>>

\* Portfolio.sell(size, price)
Sell(size, price) ==
    IF size <= 0 \/ price <= 0 \/ position <= 0
    THEN UNCHANGED <<pvars>>
    ELSE LET sellable == Min(size, position)
         IN  IF sellable < min_trade_size
             THEN UNCHANGED <<pvars>>
             ELSE LET proceeds == FMul(sellable, price)
                      remaining == FSub(position, sellable)
                  IN  /\ cash' = FAdd(cash, proceeds)
                      /\ IF remaining < min_trade_size
                         THEN position' = 0 /\ entry_price' = 0
                         ELSE position' = remaining /\ UNCHANGED entry_price
                      /\ trades' = Append(trades, SellRecord(sellable, price, proceeds))
                      /\ UNCHANGED <<initial_cash, min_trade_size, history>>

\* Portfolio.sell_all(price)
SellAll(price) ==
    IF position > 0 /\ price > 0
    THEN Sell(position, price)
    ELSE UNCHANGED <<pvars>>

\* the equity valued at the entry price instead of the bar's close
CurrentEquity_AtEntryPrice(b) ==
    LET position_value == IF position > 0 THEN FMul(position, entry_price) ELSE 0
    IN  FAdd(cash, position_value)

\* the equity Portfolio.update computes and returns
CurrentEquity(b) ==
    LET position_value == IF position > 0 THEN FMul(position, b.close) ELSE 0
    IN  FAdd(cash, position_value)

\* update stamping the last record whether or not its datetime is resolved
ResolveLast_Restamp(b) ==
    IF trades # <<>>
    THEN [trades EXCEPT ![Len(trades)].datetime = Some(b.datetime)]
    ELSE trades

\* Portfolio.update: the trade log after the last record's datetime is resolved
ResolveLast(b) ==
    IF trades # <<>> /\ trades[Len(trades)].datetime = None
    THEN [trades EXCEPT ![Len(trades)].datetime = Some(b.datetime)]
    ELSE trades

\* Portfolio.update recording an equity point only while a position is held
Update_OnlyWhenLong(b) ==
    /\ history' = IF position > 0
                  THEN Append(history, <<b.datetime, CurrentEquity(b)>>)
                  ELSE history
    /\ trades' = ResolveLast(b)
    /\ UNCHANGED <<initial_cash, min_trade_size, cash, position, entry_price>>

\* Portfolio.update(bar)
Update(b) ==
    /\ history' = Append(history, <<b.datetime, CurrentEquity(b)>>)
    /\ trades' = ResolveLast(b)
    /\ UNCHANGED <<initial_cash, min_trade_size, cash, position, entry_price>>

\* Portfolio.is_long
IsLong == position > 0

\* Portfolio.total_equity
TotalEquity == IF history = <<>> THEN initial_cash ELSE history[Len(history)][2]

\* the calls as a caller sees them: the transition, and what was called with what
CallBuy(size, price) ==
    Buy(size, price) /\ last' = Observe("buy", [size |-> size, price |-> price], None)
CallSell(size, price) ==
    Sell(size, price) /\ last' = Observe("sell", [size |-> size, price |-> price], None)
\* sell_all(price) is sell(self.position, price)
CallSellAll(price) ==
    SellAll(price) /\ last' = Observe("sell_all", [size |-> position, price |-> price], None)
CallUpdate(b) ==
    Update(b) /\ last' = Observe("update", [bar |-> b], Some(CurrentEquity(b)))

-----------------------------------------------------------------------------
(* The values Portfolio calls are made with *)

\* Portfolio(initial_cash, min_trade_size): the configurations explored
InitialCashSet == {0, Flt(13, 1)}
\* 0.1 is Engine's and Portfolio's default min_trade_size
MinTradeSet == {Flt(1, 10), Flt(1, 1)}
\* arguments of buy/sell: invalid, below the minimum, ordinary, more than affordable
SizeSet == {Flt(-1, 1), 0, Flt(1, 2), Flt(4, 1), Flt(50, 1)}
PriceSet == {Flt(-1, 1), 0, Flt(1, 1), Flt(3, 1)}
CloseSet == {Flt(1, 1), Flt(3, 1)}

-----------------------------------------------------------------------------
(* datafeed/db_feed.py: SQLiteFeed *)

\* the bars table restricted to the feed's symbol: datetime is the rest of the
\* primary key, so a table is a function from datetimes to the bar's close
Tables == UNION {[D -> CloseSet] : D \in SUBSET (1 .. MaxBars)}

\* the rows in descending order of datetime
RECURSIVE OrderByDatetime_Descending(_, _)
OrderByDatetime_Descending(table, D) ==
    IF D = {} THEN <<>>
    ELSE LET first == CHOOSE d \in D : \A e \in D : d >= e
         IN  <<Bar(first, table[first])>> \o OrderByDatetime_Descending(table, D \ {first})

\* ORDER BY datetime ASC
RECURSIVE OrderByDatetime(_, _)
OrderByDatetime(table, D) ==
    IF D = {} THEN <<>>
    ELSE LET first == CHOOSE d \in D : \A e \in D : d <= e
         IN  <<Bar(first, table[first])>> \o OrderByDatetime(table, D \ {first})

\* the rows selected by a feed without start/end bounds
Query(table) == OrderByDatetime(table, DOMAIN table)

\* the symbols bars are stored for; they are upper-case, so that
\* symbol.upper() (line 36) is the symbol itself
Symbols == {"SYM", "OTH"}

\* the bars table with `table` stored for SYM and nothing for any other symbol
OnlySym(table) == [s \in Symbols |-> IF s = "SYM" THEN table ELSE <<>>]

\* a start_datetime or end_datetime argument: absent, or a bar's datetime
BoundSet == {None} \cup {Some(d) : d \in 1 .. MaxBars}

\* one condition of a WHERE clause, and the keyword AND
Cond(col, op) == [col |-> col, op |-> op]
And == [col |-> "", op |-> "AND"]

\* lines 51-60: where_conditions
WhereConditions(start, end) ==
    <<Cond("symbol", "=")>>
    \o (IF start # None THEN <<Cond("datetime", ">=")>> ELSE <<>>)
    \o (IF end # None THEN <<Cond("datetime", "<=")>> ELSE <<>>)

\* lines 52-60: params
QueryParams(symbol, start, end) ==
    <<symbol>>
    \o (IF start # None THEN <<start[1]>> ELSE <<>>)
    \o (IF end # None THEN <<end[1]>> ELSE <<>>)

\* " AND ".join(conditions)
RECURSIVE JoinAnd(_)
JoinAnd(conditions) ==
    IF Len(conditions) <= 1 THEN conditions
    ELSE <<Head(conditions), And>> \o JoinAnd(Tail(conditions))

\* line 62: where_clause.  The conditional expression binds weakest, so with
\* more than one condition the clause is " AND " + " AND ".join(...)
WhereClause(conditions) ==
    IF Len(conditions) > 1 THEN <<And>> \o JoinAnd(conditions) ELSE <<conditions[1]>>

\* sqlite accepts a WHERE clause that is conditions separated by AND; any
\* other token sequence is a syntax error
WellFormed(clause) ==
    /\ Len(clause) % 2 = 1
    /\ \A i \in 1 .. Len(clause) : (i % 2 = 1) <=> (clause[i] # And)

\* a stored bar (symbol, datetime) satisfies condition c with parameter p
Satisfies(symbol, datetime, c, p) ==
    IF c.col = "symbol" THEN symbol = p
    ELSE IF c.op = ">=" THEN datetime >= p
    ELSE datetime <= p

\* lines 64-72: cursor.execute(query, params).  None is sqlite3.OperationalError
\* (syntax error); otherwise the bars satisfying every condition of the
\* clause, ORDER BY datetime ASC
Execute(db, clause, params) ==
    IF ~WellFormed(clause) THEN None
    ELSE LET conditions == SelectSeq(clause, LAMBDA t : t # And)
             Selected(symbol) ==
                 {d \in DOMAIN db[symbol] :
                     \A i \in 1 .. Len(conditions) :
                         Satisfies(symbol, d, conditions[i], params[i])}
             \* every clause the feed builds names one symbol
             symbol == params[1]
             rows == OrderByDatetime(db[symbol], Selected(symbol))
         IN  Some([i \in 1 .. Len(rows) |-> [rows[i] EXCEPT !.symbol = symbol]])

\* the outcome of _setup_connection_and_query for a feed of (symbol, start, end)
SetupQuery(db, symbol, start, end) ==
    Execute(db, WhereClause(WhereConditions(start, end)),
            QueryParams(symbol, start, end))

\* lines 45-72: _setup_connection_and_query, when execute does not raise
FeedSetup ==
    /\ feed_rows' = SetupQuery(db_bars, feed_symbol[1], feed_start, feed_end)[1]
    /\ feed_pos' = 0
    /\ feed_open' = TRUE

\* SQLiteFeed.close
FeedClose == feed_open' = FALSE

\* SQLiteFeed.__next__ returning a bar: the cursor is open and has a row left
FeedHasNext == feed_open /\ feed_pos < Len(feed_rows)

\* SELECT MIN(datetime) / MAX(datetime) FROM bars WHERE symbol = ?: NULL (None)
\* when the symbol has no bar
MinDatetime(table) ==
    IF DOMAIN table = {} THEN None
    ELSE Some(CHOOSE d \in DOMAIN table : \A e \in DOMAIN table : d <= e)
MaxDatetime(table) ==
    IF DOMAIN table = {} THEN None
    ELSE Some(CHOOSE d \in DOMAIN table : \A e \in DOMAIN table : d >= e)

-----------------------------------------------------------------------------
(* strategies/base.py: Strategy *)

\* a strategy_params mapping: per key None (the key is absent) or its value
Params(max_lookback, fast, slow) ==
    [max_lookback |-> max_lookback, fast |-> fast, slow |-> slow]

\* params.get(name, default)
GetParam(params, name, default) ==
    IF params[name] = None THEN default ELSE params[name][1]

\* the strategy_params of SpecEngine: an explicit max_lookback of 1, or none
LookbackSet == {Params(Some(1), None, None), Params(None, None, None)}

\* a class that adds no field to Strategy
NoFields == <<>>

\* SMA_ATR_Exit.fast_period and slow_period, fixed by the class (10 and 20)
\* and scaled down here; run() appends every bar to the history twice, so
\* these cover the last bar and the last two bars
FastPeriod == 2
SlowPeriod == 4

\* the strategy_params of SMA_ATR_Exit
AtrParams(atr_period, atr_mult) ==
    [max_lookback |-> None, fast |-> None, slow |-> None,
     atr_period |-> atr_period, atr_mult |-> atr_mult]

\* the fields the __init__ of a concrete class adds after super().__init__
StrategyFields(class, params) ==
    CASE class = "SMACrossover" ->
           \* sma_crossover.py lines 7-13
           [fast_period |-> GetParam(params, "fast", 10),
            slow_period |-> GetParam(params, "slow", 20),
            qty |-> Flt(100, 1),
            prev_bullish |-> None]
      [] class = "OptimalStopping37" ->
           \* 37pct_rule.py lines 18-25, for the default window of 100
           [window_size |-> 100, observation_cutoff |-> 37, bars_seen |-> 0,
            max_price_observation |-> 0, test_mode |-> TRUE]
      [] class = "SMA_ATR_Exit" ->
           \* sma_atr_exit.py lines 9-19
           [fast_period |-> FastPeriod,
            slow_period |-> SlowPeriod,
            qty |-> Flt(100, 1),
            atr_period |-> GetParam(params, "atr_period", 14),
            atr_multiplier |-> GetParam(params, "atr_mult", Flt(3, 1)),
            prev_bullish |-> None,
            trailing_stop_price |-> 0]
      [] OTHER -> NoFields

\* deque(maxlen = n).append(x)
DequeAppend_DropNewest(q, x, n) ==
    IF Len(q) < n THEN Append(q, x) ELSE q
DequeAppend(q, x, n) ==
    IF Len(q) < n THEN Append(q, x)
    ELSE IF n = 0 THEN q
    ELSE Append(Tail(q), x)

\* strategy_class(params = strategy_params): Strategy.__init__, then the
\* class's own fields
StrategyInit(class, params) ==
    /\ strat_bar' = None
    /\ lookback' = GetParam(params, "max_lookback", 300)
    /\ strat_history' = <<>>
    /\ strat_fields' = StrategyFields(class, params)

\* Strategy.update_bar(bar)
UpdateBar(b) ==
    /\ strat_bar' = Some(b)
    /\ strat_history' = DequeAppend(strat_history, b, lookback)
    /\ UNCHANGED <<lookback, strat_fields>>

\* Strategy.name: the name of the class
StrategyName == strategy_class

\* the closes of bars
Closes(bars) == [i \in 1 .. Len(bars) |-> bars[i].close]

\* list(q)[-n:] for 0 < n <= len(q)
LastN(q, n) == SubSeq(q, Len(q) - n + 1, Len(q))

\* statistics.mean(xs): the exact sum divided by the count, rounded once
RECURSIVE ExactSum(_)
ExactSum(xs) == IF xs = <<>> THEN 0 ELSE Head(xs) + ExactSum(Tail(xs))
Mean(xs) == Round(ExactSum(xs), Len(xs))

\* sma averaging the whole buffer once it holds period observations
Sma_WholeBuffer(h, period) ==
    IF Len(h) < period THEN None ELSE Some(Mean(Closes(h)))

\* Strategy.sma(period) over the history h
Sma(h, period) ==
    IF Len(h) < period THEN None ELSE Some(Mean(Closes(LastN(h, period))))

\* lines 111-115: the true range of curr, whose predecessor in the buffer is prev
TrueRange_HighLow(curr, prev) == FSub(curr.high, curr.low)
TrueRange(curr, prev) ==
    LET val1 == FSub(curr.high, curr.low)
        val2 == Abs(FSub(curr.high, prev.close))
        val3 == Abs(FSub(curr.low, prev.close))
    IN  Max(val1, Max(val2, val3))

\* Strategy.atr(period) over the history h
Atr(h, period) ==
    IF Len(h) < period + 1 THEN None
    ELSE LET recent_bars == LastN(h, period + 1)
             true_ranges == [i \in 1 .. period |->
                                TrueRange(recent_bars[i + 1], recent_bars[i])]
         IN  Some(Mean(true_ranges))

-----------------------------------------------------------------------------
(* Spec: a Portfolio driven by arbitrary calls *)

NoCall == [op |-> "none"]

\* no run_multiple call is in progress
NoMulti == [phase |-> "none"]

\* no list was taken from Portfolio.trades
NoSnapshot == [taken |-> FALSE]

\* no Analyzer is replaying a trade log
NoReplay == [phase |-> "none"]

\* nothing is calling the query methods
CallersIdle ==
    /\ helper_log = <<>>
    /\ snap = NoSnapshot
    /\ replay = NoReplay

\* the engine side is idle in Spec
EngineIdle ==
    /\ db_bars = OnlySym(<<>>)
    /\ feed_symbol = None /\ feed_start = None /\ feed_end = None
    /\ feed_rows = <<>> /\ feed_pos = 0 /\ feed_open = FALSE /\ feed_log = <<>>
    /\ lookback = 0 /\ strat_bar = None /\ strat_history = <<>>
    /\ strat_fields = NoFields
    /\ strategy_class = "Strategy" /\ strategy_params = Params(None, None, None)
    /\ runs = <<>> /\ multi = NoMulti
    /\ pc = "idle" /\ bar = None /\ bar_count = 0 /\ last_bar = None
    /\ orders = 0 /\ calls = <<>> /\ filled_at = <<>> /\ analyzer = None

Init ==
    /\ initial_cash \in InitialCashSet
    /\ min_trade_size \in MinTradeSet
    /\ cash = initial_cash
    /\ position = 0
    /\ entry_price = 0
    /\ history = <<>>
    /\ trades = <<>>
    /\ last = NoCall
    /\ nops = 0
    /\ CallersIdle
    /\ EngineIdle

DoBuy ==
    /\ nops < MaxOps
    /\ \E size \in SizeSet, price \in PriceSet : CallBuy(size, price)
    /\ nops' = nops + 1
    /\ UNCHANGED <<xvars, fvars, svars, evars>>

DoSell ==
    /\ nops < MaxOps
    /\ \E size \in SizeSet, price \in PriceSet : CallSell(size, price)
    /\ nops' = nops + 1
    /\ UNCHANGED <<xvars, fvars, svars, evars>>

DoSellAll ==
    /\ nops < MaxOps
    /\ \E price \in PriceSet : CallSellAll(price)
    /\ nops' = nops + 1
    /\ UNCHANGED <<xvars, fvars, svars, evars>>

DoUpdate ==
    /\ nops < MaxOps
    /\ \E close \in CloseSet : CallUpdate(Bar(nops + 1, close))
    /\ nops' = nops + 1
    /\ UNCHANGED <<xvars, fvars, svars, evars>>

Next == DoBuy \/ DoSell \/ DoSellAll \/ DoUpdate

Spec == Init /\ [][Next]_vars

-----------------------------------------------------------------------------
(* SpecFeed: a SQLiteFeed driven by arbitrary calls *)

\* how a call on the feed ended: what it returned or raised
Returned(kind, val) == [kind |-> kind, val |-> val]
Raised(exception) == [kind |-> "error", val |-> Some(exception)]

\* what the driver notes of a call: its name and arguments, how it ended, and
\* the state of the cursor when it was made
FeedCallWith(op, args, ret) ==
    [op |-> op, args |-> args, ret |-> ret, pos |-> feed_pos, open |-> feed_open]
FeedCall(op, ret) == FeedCallWith(op, <<>>, ret)

\* SQLiteFeed(symbol, start, end): __init__; execute raising leaves no feed
FeedNew(symbol, start, end) ==
    IF SetupQuery(db_bars, symbol, start, end) = None
    THEN /\ feed_log' = Append(feed_log,
                FeedCallWith("__init__", <<symbol, start, end>>,
                             Raised("OperationalError")))
         /\ UNCHANGED <<feed_symbol, feed_start, feed_end, fvars>>
    ELSE /\ feed_symbol' = Some(symbol)
         /\ feed_start' = start
         /\ feed_end' = end
         /\ feed_rows' = SetupQuery(db_bars, symbol, start, end)[1]
         /\ feed_pos' = 0
         /\ feed_open' = TRUE
         /\ feed_log' = Append(feed_log,
                FeedCallWith("__init__", <<symbol, start, end>>, Returned("ok", None)))

\* rewind() that only closes the feed, without running the query again
Rewind_CloseOnly ==
    /\ FeedClose
    /\ feed_log' = Append(feed_log, FeedCall("rewind", Returned("ok", None)))
    /\ UNCHANGED <<feed_rows, feed_pos>>

\* SQLiteFeed.rewind
Rewind ==
    IF SetupQuery(db_bars, feed_symbol[1], feed_start, feed_end) = None
    THEN /\ FeedClose
         /\ feed_log' = Append(feed_log, FeedCall("rewind", Raised("OperationalError")))
         /\ UNCHANGED <<feed_rows, feed_pos>>
    ELSE /\ FeedSetup
         /\ feed_log' = Append(feed_log, FeedCall("rewind", Returned("ok", None)))

\* SQLiteFeed.__next__
FeedRequest ==
    IF FeedHasNext
    THEN /\ feed_pos' = feed_pos + 1
         /\ feed_log' = Append(feed_log,
                FeedCall("next", Returned("bar", Some(feed_rows[feed_pos + 1]))))
         /\ UNCHANGED <<feed_rows, feed_open>>
    ELSE /\ FeedClose
         /\ feed_log' = Append(feed_log, FeedCall("next", Returned("stop", None)))
         /\ UNCHANGED <<feed_rows, feed_pos>>

\* get_first_datetime / get_last_datetime: self.conn.cursor() raises on the
\* None that close() leaves in self.conn
Peek(op, value) ==
    /\ feed_log' = Append(feed_log,
           FeedCall(op, IF feed_open THEN Returned("value", value)
                        ELSE Raised("AttributeError")))
    /\ UNCHANGED fvars

\* feed calls in one behaviour of SpecFeed
MaxFeedOps == 5

\* a feed object exists: its construction has returned
FeedExists == feed_symbol # None

DoFeedNew ==
    /\ feed_log = <<>>
    /\ \E start \in BoundSet, end \in BoundSet : FeedNew("SYM", start, end)
    /\ UNCHANGED <<cvars, pvars, last, nops, svars, evars, db_bars, strategy_class,
                   strategy_params, runs, multi>>

DoFeedRequest ==
    /\ FeedExists /\ nops < MaxFeedOps
    /\ FeedRequest
    /\ nops' = nops + 1
    /\ UNCHANGED <<cvars, pvars, last, svars, evars, db_bars, feed_symbol, feed_start,
                   feed_end, strategy_class, strategy_params, runs, multi>>

DoRewind ==
    /\ FeedExists /\ nops < MaxFeedOps
    /\ Rewind
    /\ nops' = nops + 1
    /\ UNCHANGED <<cvars, pvars, last, svars, evars, db_bars, feed_symbol, feed_start,
                   feed_end, strategy_class, strategy_params, runs, multi>>

DoGetFirstDatetime ==
    /\ FeedExists /\ nops < MaxFeedOps
    /\ Peek("get_first_datetime", MinDatetime(db_bars[feed_symbol[1]]))
    /\ nops' = nops + 1
    /\ UNCHANGED <<cvars, pvars, last, svars, evars, db_bars, feed_symbol, feed_start,
                   feed_end, strategy_class, strategy_params, runs, multi>>

DoGetLastDatetime ==
    /\ FeedExists /\ nops < MaxFeedOps
    /\ Peek("get_last_datetime", MaxDatetime(db_bars[feed_symbol[1]]))
    /\ nops' = nops + 1
    /\ UNCHANGED <<cvars, pvars, last, svars, evars, db_bars, feed_symbol, feed_start,
                   feed_end, strategy_class, strategy_params, runs, multi>>

\* a bars table, and no feed yet
InitFeed ==
    /\ initial_cash = Flt(13, 1)
    /\ min_trade_size = Flt(1, 10)
    /\ cash = initial_cash
    /\ position = 0
    /\ entry_price = 0
    /\ history = <<>>
    /\ trades = <<>>
    /\ last = NoCall
    /\ nops = 0
    /\ CallersIdle
    /\ \E table \in Tables : db_bars = OnlySym(table)
    /\ feed_symbol = None /\ feed_start = None /\ feed_end = None
    /\ feed_rows = <<>> /\ feed_pos = 0 /\ feed_open = FALSE /\ feed_log = <<>>
    /\ lookback = 0 /\ strat_bar = None /\ strat_history = <<>>
    /\ strat_fields = NoFields
    /\ strategy_class = "Strategy" /\ strategy_params = Params(None, None, None)
    /\ pc = "idle" /\ bar = None /\ bar_count = 0 /\ last_bar = None
    /\ orders = 0 /\ calls = <<>> /\ filled_at = <<>> /\ analyzer = None
    /\ runs = <<>> /\ multi = NoMulti

NextFeed ==
    \/ DoFeedNew
    \/ DoFeedRequest
    \/ DoRewind
    \/ DoGetFirstDatetime
    \/ DoGetLastDatetime

SpecFeed == InitFeed /\ [][NextFeed]_vars

-----------------------------------------------------------------------------
(* core/analyzer.py: Analyzer *)

\* lines 91-98 with entry_price left as it is when a BUY is replayed
ReplayOne_NoEntryPrice(t, pos, entry) ==
    IF t.type = "BUY"
    THEN [position |-> FAdd(pos, t.size), entry_price |-> entry, pnl |-> None]
    ELSE IF t.type = "SELL" /\ pos > 0
    THEN [position |-> FSub(pos, t.size), entry_price |-> entry,
          pnl |-> Some(FMul(FSub(t.price, entry), t.size))]
    ELSE [position |-> pos, entry_price |-> entry, pnl |-> None]

\* lines 91-98: one trade replayed from the replay state (position,
\* entry_price): the state after it, and the realized outcome it appends
\* to realized_pnl (None when it appends none)
ReplayOne(t, pos, entry) ==
    IF t.type = "BUY"
    THEN [position |-> FAdd(pos, t.size), entry_price |-> t.price, pnl |-> None]
    ELSE IF t.type = "SELL" /\ pos > 0
    THEN [position |-> FSub(pos, t.size), entry_price |-> entry,
          pnl |-> Some(FMul(FSub(t.price, entry), t.size))]
    ELSE [position |-> pos, entry_price |-> entry, pnl |-> None]

\* lines 86-98: the trade log replayed from the replay state; the result is
\* realized_pnl, one entry per SELL met while the replayed position is positive
RECURSIVE ReplayTrades(_, _, _)
ReplayTrades(ts, pos, entry) ==
    IF ts = <<>> THEN <<>>
    ELSE LET r == ReplayOne(Head(ts), pos, entry)
         IN  r.pnl \o ReplayTrades(Tail(ts), r.position, r.entry_price)

\* realized_pnl of a trade log: the replay starts flat
RealizedPnl(ts) == ReplayTrades(ts, 0, 0)

\* line 100: wins
Wins(pnl) == SelectSeq(pnl, LAMBDA p : p > 0)

\* line 101: losses, as magnitudes
RECURSIVE Losses(_)
Losses(pnl) ==
    IF pnl = <<>> THEN <<>>
    ELSE (IF Head(pnl) <= 0 THEN <<Abs(Head(pnl))>> ELSE <<>>) \o Losses(Tail(pnl))

\* sum(xs): the floats added left to right, starting from the integer 0
RECURSIVE SumFrom(_, _)
SumFrom(acc, xs) == IF xs = <<>> THEN acc ELSE SumFrom(FAdd(acc, Head(xs)), Tail(xs))
Sum(xs) == SumFrom(0, xs)

\* line 103: win_rate
WinRate(pnl) ==
    IF pnl # <<>> THEN FMul(Flt(Len(Wins(pnl)), Len(pnl)), Flt(100, 1)) ELSE 0

\* profit_factor reported as the gross profit when there is no gross loss
ProfitFactor_GrossProfit(pnl) ==
    LET gross_profit == IF Wins(pnl) # <<>> THEN Sum(Wins(pnl)) ELSE 0
        gross_loss == IF Losses(pnl) # <<>> THEN Sum(Losses(pnl)) ELSE 0
    IN  IF gross_loss > 0 THEN PyRound(FDiv(gross_profit, gross_loss), 3)
        ELSE PyRound(gross_profit, 3)

\* lines 104-106 and 122: profit_factor as stored in the metrics; an infinite
\* factor (no gross loss) is stored as 0.0
ProfitFactor(pnl) ==
    LET gross_profit == IF Wins(pnl) # <<>> THEN Sum(Wins(pnl)) ELSE 0
        gross_loss == IF Losses(pnl) # <<>> THEN Sum(Losses(pnl)) ELSE 0
    IN  IF gross_loss > 0 THEN PyRound(FDiv(gross_profit, gross_loss), 3) ELSE 0

\* equity_df["equity"]: the equity column of the curve
Equities(h) == [k \in 1 .. Len(h) |-> h[k][2]]

\* a peak taken over the whole curve instead of the curve so far
RunningPeak_Overall(eq, k) ==
    CHOOSE m \in {eq[j] : j \in 1 .. Len(eq)} : \A j \in 1 .. Len(eq) : eq[j] <= m

\* line 76: equity.cummax() at the k-th point
RECURSIVE RunningPeak(_, _)
RunningPeak(eq, k) ==
    IF k = 1 THEN eq[1] ELSE Max(RunningPeak(eq, k - 1), eq[k])

\* line 77: drawdown at the k-th point (the peak is positive)
Drawdown(eq, k) == FDiv(FSub(eq[k], RunningPeak(eq, k)), RunningPeak(eq, k))

\* line 78: drawdown.min() * 100 over the first k points
RECURSIVE MinDrawdown(_, _)
MinDrawdown(eq, k) ==
    IF k = 1 THEN Drawdown(eq, 1) ELSE Min(MinDrawdown(eq, k - 1), Drawdown(eq, k))
MaxDrawdownPct(eq) == FMul(MinDrawdown(eq, Len(eq)), Flt(100, 1))

\* _calculate_metrics reporting an all-zero set for an empty equity curve
CalculateMetrics_AllZero ==
    IF history = <<>>
    THEN [total_return_pct |-> 0, total_equity |-> 0, cagr_pct |-> 0,
          sharpe |-> 0, volatility_annualized |-> 0, max_drawdown_pct |-> 0,
          num_trades |-> 0, win_rate_pct |-> 0, profit_factor |-> 0]
    ELSE [symbol |-> None, strategy |-> None,
          total_equity |-> PyRound(history[Len(history)][2], 2),
          num_trades |-> Len(trades),
          win_rate_pct |-> PyRound(WinRate(RealizedPnl(trades)), 2),
          max_drawdown_pct |-> PyRound(MaxDrawdownPct(Equities(history)), 3),
          profit_factor |-> ProfitFactor(RealizedPnl(trades)),
          bar_count |-> 0]

\* Analyzer._calculate_metrics, run by Analyzer.__init__ while symbol and
\* strategy_name are still None and bar_count is still 0.  Of the metrics of a
\* non-empty equity curve the return, CAGR, Sharpe and volatility figures are
\* left out.
CalculateMetrics ==
    IF history = <<>>
    THEN [total_return_pct |-> 0, total_equity |-> initial_cash, cagr_pct |-> 0,
          sharpe |-> 0, volatility_annualized |-> 0, max_drawdown_pct |-> 0,
          num_trades |-> 0, win_rate_pct |-> 0, profit_factor |-> 0]
    ELSE [symbol |-> None, strategy |-> None,
          total_equity |-> PyRound(history[Len(history)][2], 2),
          num_trades |-> Len(trades),
          win_rate_pct |-> PyRound(WinRate(RealizedPnl(trades)), 2),
          max_drawdown_pct |-> PyRound(MaxDrawdownPct(Equities(history)), 3),
          profit_factor |-> ProfitFactor(RealizedPnl(trades)),
          bar_count |-> 0]

-----------------------------------------------------------------------------
(* core/engine.py: Engine.run *)

Call(name, b) == [call |-> name, bar |-> b]

\* the sizes the strategy's next() orders (an ordinary lot, and more than the
\* cash affords or the position holds); the price is the bar's close
BuySizes == {Flt(4, 1), Flt(50, 1)}
SellSizes == {Flt(4, 1), Flt(50, 1)}

\* run() binding the new Strategy to the Portfolio of the run before
RunBegin_ReusePortfolio ==
    /\ pc = "idle"
    /\ StrategyInit(strategy_class, strategy_params)
    /\ pc' = "on_start"
    /\ UNCHANGED <<xvars, pvars, last, nops, fvars, bar, bar_count, last_bar, orders,
                   calls, filled_at, analyzer>>

\* run() rewinding its feed before it starts
RunBegin_Rewinds ==
    /\ pc = "idle"
    /\ StrategyInit(strategy_class, strategy_params)
    /\ PortfolioInit(initial_cash, min_trade_size)
    /\ feed_pos' = 0
    /\ feed_open' = TRUE
    /\ pc' = "on_start"
    /\ UNCHANGED <<xvars, last, nops, feed_rows, bar, bar_count, last_bar, orders, calls,
                   filled_at, analyzer>>

\* lines 38-50: a new Strategy and a new Portfolio, bound together
RunBegin ==
    /\ pc = "idle"
    /\ StrategyInit(strategy_class, strategy_params)
    /\ PortfolioInit(initial_cash, min_trade_size)
    /\ pc' = "on_start"
    /\ UNCHANGED <<xvars, last, nops, fvars, bar, bar_count, last_bar, orders, calls,
                   filled_at, analyzer>>

\* lines 53-56: strategy.on_start() (Strategy.on_start is `pass`)
OnStart ==
    /\ pc = "on_start"
    /\ calls' = Append(calls, Call("on_start", None))
    /\ last_bar' = None
    /\ bar_count' = 0
    /\ pc' = "loop"
    /\ UNCHANGED <<xvars, pvars, last, nops, fvars, svars, bar, orders, filled_at, analyzer>>

\* line 57, the feed yields a bar; lines 58-59
FeedNext ==
    /\ pc = "loop"
    /\ FeedHasNext
    /\ feed_pos' = feed_pos + 1
    /\ bar' = Some(feed_rows[feed_pos + 1])
    /\ bar_count' = bar_count + 1
    /\ last_bar' = Some(feed_rows[feed_pos + 1])
    /\ pc' = "update_bar"
    /\ UNCHANGED <<xvars, pvars, last, nops, feed_rows, feed_open, svars, orders, calls,
                   filled_at, analyzer>>

\* line 57, the feed raises StopIteration (closing itself when it was open);
\* lines 76-81 change nothing
FeedStop ==
    /\ pc = "loop"
    /\ ~FeedHasNext
    /\ FeedClose
    /\ pc' = "on_end"
    /\ UNCHANGED <<xvars, pvars, last, nops, feed_rows, feed_pos, svars, bar, bar_count,
                   last_bar, orders, calls, filled_at, analyzer>>

\* the loop body without line 60, leaving update_bar to the strategy's next()
EngineUpdateBar_Skipped ==
    /\ pc = "update_bar"
    /\ pc' = "next"
    /\ UNCHANGED <<xvars, pvars, last, nops, fvars, svars, bar, bar_count, last_bar, orders,
                   calls, filled_at, analyzer>>

\* line 60: strategy.update_bar(bar)
EngineUpdateBar ==
    /\ pc = "update_bar"
    /\ UpdateBar(bar[1])
    /\ calls' = Append(calls, Call("update_bar", bar))
    /\ pc' = "next"
    /\ UNCHANGED <<xvars, pvars, last, nops, fvars, bar, bar_count, last_bar, orders,
                   filled_at, analyzer>>

\* line 62: strategy.next(bar) is entered
EngineNext ==
    /\ pc = "next"
    /\ calls' = Append(calls, Call("next", bar))
    /\ orders' = 0
    /\ pc' = "in_next"
    /\ UNCHANGED <<xvars, pvars, last, nops, fvars, svars, bar, bar_count, last_bar,
                   filled_at, analyzer>>

\* the trade log grew: note the bar during whose next() the fill happened
NoteFill(n) ==
    filled_at' = IF Len(trades') > Len(trades) THEN Append(filled_at, n) ELSE filled_at

\* inside next(bar): the strategy places an order at the bar's close
StrategyBuy ==
    /\ pc = "in_next"
    /\ orders < MaxOrdersPerStep
    /\ \E size \in BuySizes : CallBuy(size, bar[1].close)
    /\ NoteFill(bar_count)
    /\ orders' = orders + 1
    /\ UNCHANGED <<xvars, nops, fvars, svars, pc, bar, bar_count, last_bar, calls, analyzer>>

StrategySell ==
    /\ pc = "in_next"
    /\ orders < MaxOrdersPerStep
    /\ \E size \in SellSizes : CallSell(size, bar[1].close)
    /\ NoteFill(bar_count)
    /\ orders' = orders + 1
    /\ UNCHANGED <<xvars, nops, fvars, svars, pc, bar, bar_count, last_bar, calls, analyzer>>

\* next(bar) returns
StrategyReturn ==
    /\ pc = "in_next"
    /\ pc' = "update"
    /\ UNCHANGED <<xvars, pvars, last, nops, fvars, svars, bar, bar_count, last_bar, orders,
                   calls, filled_at, analyzer>>

\* line 65: portfolio.update(bar)
EnginePortfolioUpdate ==
    /\ pc = "update"
    /\ CallUpdate(bar[1])
    /\ calls' = Append(calls, Call("update", bar))
    /\ pc' = "loop"
    /\ UNCHANGED <<xvars, nops, fvars, svars, bar, bar_count, last_bar, orders, filled_at,
                   analyzer>>

\* on_end leaving an open position open
OnEnd_KeepPosition == UNCHANGED <<pvars, last, filled_at>>

\* Strategy.on_end: sells the open position at the last bar's close
OnEnd ==
    IF strat_bar # None /\ IsLong
    THEN CallSellAll(strat_bar[1].close) /\ NoteFill(0)
    ELSE UNCHANGED <<pvars, last, filled_at>>

\* line 84: strategy.on_end()
EngineOnEnd ==
    /\ pc = "on_end"
    /\ OnEnd
    /\ calls' = Append(calls, Call("on_end", None))
    /\ pc' = "analyze"
    /\ UNCHANGED <<xvars, nops, fvars, svars, bar, bar_count, last_bar, orders, analyzer>>

\* run() returning the Analyzer as Analyzer.__init__ leaves it, without tags
EngineAnalyze_Untagged ==
    /\ pc = "analyze"
    /\ analyzer' = Some([metrics |-> CalculateMetrics, symbol |-> None,
                         strategy_name |-> None, bar_count |-> 0])
    /\ pc' = "done"
    /\ UNCHANGED <<xvars, pvars, last, nops, fvars, svars, bar, bar_count, last_bar, orders,
                   calls, filled_at>>

\* lines 87-99: the Analyzer of the finished portfolio, tagged and returned
EngineAnalyze ==
    /\ pc = "analyze"
    /\ analyzer' = Some([metrics |-> CalculateMetrics, symbol |-> feed_symbol,
                         strategy_name |-> Some(StrategyName),
                         bar_count |-> bar_count])
    /\ pc' = "done"
    /\ UNCHANGED <<xvars, pvars, last, nops, fvars, svars, bar, bar_count, last_bar, orders,
                   calls, filled_at>>

\* Engine(feed, strategy_class, strategy_params, initial_cash, min_trade_size)
\* over a freshly constructed feed
InitEngine ==
    /\ initial_cash = Flt(13, 1)
    /\ min_trade_size = Flt(1, 10)
    /\ cash = initial_cash
    /\ position = 0
    /\ entry_price = 0
    /\ history = <<>>
    /\ trades = <<>>
    /\ last = NoCall
    /\ nops = 0
    /\ CallersIdle
    /\ \E table \in Tables : db_bars = OnlySym(table)
    /\ feed_symbol = Some("SYM") /\ feed_start = None /\ feed_end = None
    /\ feed_rows = SetupQuery(db_bars, "SYM", None, None)[1]
    /\ feed_pos = 0
    /\ feed_open = TRUE
    /\ feed_log = <<>>
    /\ lookback = 0 /\ strat_bar = None /\ strat_history = <<>>
    /\ strat_fields = NoFields
    /\ strategy_class = "Strategy" /\ strategy_params \in LookbackSet
    /\ runs = <<>> /\ multi = NoMulti
    /\ pc = "idle" /\ bar = None /\ bar_count = 0 /\ last_bar = None
    /\ orders = 0 /\ calls = <<>> /\ filled_at = <<>> /\ analyzer = None

NextEngine ==
    \/ RunBegin
    \/ OnStart
    \/ FeedNext
    \/ FeedStop
    \/ EngineUpdateBar
    \/ EngineNext
    \/ StrategyBuy
    \/ StrategySell
    \/ StrategyReturn
    \/ EnginePortfolioUpdate
    \/ EngineOnEnd
    \/ EngineAnalyze

SpecEngine == InitEngine /\ [][NextEngine]_vars

-----------------------------------------------------------------------------
(* strategies/*.py: next(bar) of the concrete classes *)

\* BuyAndHold.next
BuyAndHoldNext ==
    /\ pc = "in_next"
    /\ strategy_class = "BuyAndHold"
    /\ IF position = 0
       THEN CallBuy(Flt(100, 1), bar[1].close)
       ELSE UNCHANGED <<pvars, last>>
    /\ NoteFill(bar_count)
    /\ pc' = "update"
    /\ UNCHANGED <<xvars, nops, fvars, svars, bar, bar_count, last_bar, orders, calls,
                   analyzer>>

\* SMACrossover.next: line 17 calls update_bar(bar) again
SMACrossoverNext ==
    /\ pc = "in_next"
    /\ strategy_class = "SMACrossover"
    /\ LET b == bar[1]
           h == DequeAppend(strat_history, b, lookback)
           sma_fast == Sma(h, strat_fields.fast_period)
           sma_slow == Sma(h, strat_fields.slow_period)
           is_bullish == sma_fast[1] > sma_slow[1]
           prev_bullish == strat_fields.prev_bullish
           current_pos == position
       IN  /\ strat_bar' = Some(b)
           /\ strat_history' = h
           /\ UNCHANGED lookback
           /\ IF sma_fast = None \/ sma_slow = None
              THEN UNCHANGED <<strat_fields, pvars, last>>
              ELSE /\ strat_fields' =
                        [strat_fields EXCEPT !.prev_bullish = Some(is_bullish)]
                   /\ IF prev_bullish = None
                      THEN UNCHANGED <<pvars, last>>
                      ELSE IF is_bullish /\ ~prev_bullish[1]
                      THEN IF current_pos < Flt(1, 10)
                           THEN CallBuy(strat_fields.qty, b.close)
                           ELSE UNCHANGED <<pvars, last>>
                      ELSE IF ~is_bullish /\ prev_bullish[1]
                      THEN IF current_pos > 0
                           THEN CallSell(current_pos, b.close)
                           ELSE UNCHANGED <<pvars, last>>
                      ELSE UNCHANGED <<pvars, last>>
    /\ NoteFill(bar_count)
    /\ pc' = "update"
    /\ UNCHANGED <<xvars, nops, fvars, bar, bar_count, last_bar, orders, calls, analyzer>>

\* OptimalStopping37.next: update_bar(bar) again, bars_seen += 1, and then
\* either line 36 (test_mode, first bar: buy called with three arguments,
\* TypeError) or line 40 (Portfolio has no `positions`, AttributeError);
\* run() has no handler, so the exception ends it
OptimalStopping37Next ==
    /\ pc = "in_next"
    /\ strategy_class = "OptimalStopping37"
    /\ strat_bar' = Some(bar[1])
    /\ strat_history' = DequeAppend(strat_history, bar[1], lookback)
    /\ strat_fields' = [strat_fields EXCEPT !.bars_seen = @ + 1]
    /\ pc' = "raised"
    /\ UNCHANGED <<xvars, pvars, last, nops, fvars, lookback, bar, bar_count, last_bar,
                   orders, calls, filled_at, analyzer>>

-----------------------------------------------------------------------------
(* SpecRuns: run() called repeatedly on one Engine with a concrete strategy *)

\* run() calls on the Engine in one behaviour of SpecRuns
MaxRuns == 2
\* bars stored for the symbol in SpecRuns
MaxRunBars == 3

RunTables == UNION {[D -> CloseSet] : D \in SUBSET (1 .. MaxRunBars)}

\* the classes of strategies/ modelled, and the strategy_params explored:
\* none, SMA periods 1 and 3, and these with a rolling buffer of one bar
ConcreteClasses == {"BuyAndHold", "SMACrossover", "OptimalStopping37"}
RunParamsSet ==
    {Params(None, None, None), Params(None, Some(1), Some(3)),
     Params(Some(1), Some(1), Some(3))}

\* what a run() call leaves behind: how it ended, its portfolio's logs, and
\* the Analyzer it returned
RunResult ==
    [outcome |-> pc, trades |-> trades, history |-> history, analyzer |-> analyzer,
     cash |-> cash, position |-> position]

\* run() is called again on the same Engine: a new frame of locals
RunAgain ==
    /\ pc \in {"done", "raised"}
    /\ Len(runs) < MaxRuns - 1
    /\ runs' = Append(runs, RunResult)
    /\ pc' = "idle"
    /\ bar' = None /\ bar_count' = 0 /\ last_bar' = None
    /\ orders' = 0 /\ calls' = <<>> /\ filled_at' = <<>> /\ analyzer' = None
    /\ UNCHANGED <<cvars, pvars, last, nops, fvars, svars, db_bars, feed_symbol, feed_start,
                   feed_end, feed_log, strategy_class, strategy_params, multi>>

\* between two run() calls the driver rewinds the Engine's feed
RewindBetweenRuns ==
    /\ pc = "idle"
    /\ Len(feed_log) < Len(runs)
    /\ Rewind
    /\ UNCHANGED <<cvars, pvars, last, nops, svars, evars, db_bars, feed_symbol, feed_start,
                   feed_end, strategy_class, strategy_params, runs, multi>>

InitRuns ==
    /\ initial_cash = Flt(13, 1)
    /\ min_trade_size = Flt(1, 10)
    /\ cash = initial_cash
    /\ position = 0
    /\ entry_price = 0
    /\ history = <<>>
    /\ trades = <<>>
    /\ last = NoCall
    /\ nops = 0
    /\ CallersIdle
    /\ \E table \in RunTables : db_bars = OnlySym(table)
    /\ feed_symbol = Some("SYM") /\ feed_start = None /\ feed_end = None
    /\ feed_rows = SetupQuery(db_bars, "SYM", None, None)[1]
    /\ feed_pos = 0
    /\ feed_open = TRUE
    /\ feed_log = <<>>
    /\ lookback = 0 /\ strat_bar = None /\ strat_history = <<>>
    /\ strat_fields = NoFields
    /\ strategy_class \in ConcreteClasses
    /\ strategy_params \in RunParamsSet
    /\ pc = "idle" /\ bar = None /\ bar_count = 0 /\ last_bar = None
    /\ orders = 0 /\ calls = <<>> /\ filled_at = <<>> /\ analyzer = None
    /\ runs = <<>> /\ multi = NoMulti

NextRuns ==
    \/ RunBegin
    \/ OnStart
    \/ FeedNext
    \/ FeedStop
    \/ EngineUpdateBar
    \/ EngineNext
    \/ BuyAndHoldNext
    \/ SMACrossoverNext
    \/ OptimalStopping37Next
    \/ EnginePortfolioUpdate
    \/ EngineOnEnd
    \/ EngineAnalyze
    \/ RunAgain
    \/ RewindBetweenRuns

SpecRuns == InitRuns /\ [][NextRuns]_vars

-----------------------------------------------------------------------------
(* core/engine.py: Engine.run_multiple (SpecMulti) *)

\* results[key] = value on a dict
DictSet(dict, key, value) ==
    [k \in DOMAIN dict \cup {key} |-> IF k = key THEN value ELSE dict[k]]

\* the symbols argument: lists without repetition
SymbolLists == {<<>>, <<"SYM">>, <<"SYM", "OTH">>, <<"OTH", "SYM">>}

\* the symbol the loop of line 125 is at
MultiSymbol == multi.symbols[multi.i]

\* the locals of a run() call that has ended are gone
EndOfRun ==
    /\ pc' = "idle"
    /\ bar' = None /\ bar_count' = 0 /\ last_bar' = None
    /\ orders' = 0 /\ calls' = <<>> /\ filled_at' = <<>> /\ analyzer' = None

\* lines 125-140: the next symbol's SQLiteFeed and Engine; a constructor that
\* raises is caught by lines 150-152 and the loop continues
MultiFeed ==
    /\ multi.phase = "feed"
    /\ multi.i <= Len(multi.symbols)
    /\ FeedNew(MultiSymbol, multi.start, multi.end)
    /\ multi' = IF SetupQuery(db_bars, MultiSymbol, multi.start, multi.end) = None
                THEN [multi EXCEPT !.i = @ + 1,
                                   !.outcomes = Append(@, "feed_error")]
                ELSE [multi EXCEPT !.phase = "run"]
    /\ UNCHANGED <<cvars, pvars, last, nops, svars, evars, db_bars, strategy_class,
                   strategy_params, runs>>

\* line 142: results[symbol] = result, once engine.run() has returned
MultiStore ==
    /\ multi.phase = "run"
    /\ pc = "done"
    /\ multi' = [multi EXCEPT !.results = DictSet(@, MultiSymbol, analyzer[1]),
                              !.i = @ + 1,
                              !.outcomes = Append(@, "done"),
                              !.phase = "feed"]
    /\ EndOfRun
    /\ UNCHANGED <<cvars, pvars, last, nops, fvars, svars, db_bars, feed_symbol, feed_start,
                   feed_end, feed_log, strategy_class, strategy_params, runs>>

\* an exception of engine.run() ending run_multiple instead of being caught
MultiCatch_Propagate ==
    /\ multi.phase = "run"
    /\ pc = "raised"
    /\ multi' = [multi EXCEPT !.outcomes = Append(@, "raised"),
                              !.phase = "returned"]
    /\ EndOfRun
    /\ UNCHANGED <<cvars, pvars, last, nops, fvars, svars, db_bars, feed_symbol, feed_start,
                   feed_end, feed_log, strategy_class, strategy_params, runs>>

\* lines 150-152: an exception of engine.run() is caught, logged, and the loop
\* continues with the next symbol
MultiCatch ==
    /\ multi.phase = "run"
    /\ pc = "raised"
    /\ multi' = [multi EXCEPT !.i = @ + 1,
                              !.outcomes = Append(@, "raised"),
                              !.phase = "feed"]
    /\ EndOfRun
    /\ UNCHANGED <<cvars, pvars, last, nops, fvars, svars, db_bars, feed_symbol, feed_start,
                   feed_end, feed_log, strategy_class, strategy_params, runs>>

\* line 154: return results
MultiReturn ==
    /\ multi.phase = "feed"
    /\ multi.i > Len(multi.symbols)
    /\ multi' = [multi EXCEPT !.phase = "returned"]
    /\ UNCHANGED <<cvars, pvars, last, nops, fvars, svars, evars, db_bars, feed_symbol,
                   feed_start, feed_end, feed_log, strategy_class, strategy_params, runs>>

\* line 141: engine.run()
MultiRun ==
    /\ multi.phase = "run"
    /\ \/ RunBegin
       \/ OnStart
       \/ FeedNext
       \/ FeedStop
       \/ EngineUpdateBar
       \/ EngineNext
       \/ BuyAndHoldNext
       \/ OptimalStopping37Next
       \/ EnginePortfolioUpdate
       \/ EngineOnEnd
       \/ EngineAnalyze

\* Engine.run_multiple(symbols, strategy_class, start_datetime, end_datetime)
\* is called; show_progress makes no difference to what is modelled
InitMulti ==
    /\ initial_cash = Flt(13, 1)
    /\ min_trade_size = Flt(1, 10)
    /\ cash = initial_cash
    /\ position = 0
    /\ entry_price = 0
    /\ history = <<>>
    /\ trades = <<>>
    /\ last = NoCall
    /\ nops = 0
    /\ CallersIdle
    /\ db_bars \in [Symbols -> Tables]
    /\ feed_symbol = None /\ feed_start = None /\ feed_end = None
    /\ feed_rows = <<>> /\ feed_pos = 0 /\ feed_open = FALSE /\ feed_log = <<>>
    /\ lookback = 0 /\ strat_bar = None /\ strat_history = <<>>
    /\ strat_fields = NoFields
    /\ strategy_class \in {"BuyAndHold", "OptimalStopping37"}
    /\ strategy_params = Params(None, None, None)
    /\ pc = "idle" /\ bar = None /\ bar_count = 0 /\ last_bar = None
    /\ orders = 0 /\ calls = <<>> /\ filled_at = <<>> /\ analyzer = None
    /\ runs = <<>>
    /\ \E symbols \in SymbolLists, start \in BoundSet, end \in BoundSet :
           multi = [phase |-> "feed", symbols |-> symbols, start |-> start,
                    end |-> end, i |-> 1, results |-> <<>>, outcomes |-> <<>>]

NextMulti ==
    \/ MultiFeed
    \/ MultiRun
    \/ MultiStore
    \/ MultiCatch
    \/ MultiReturn

SpecMulti == InitMulti /\ [][NextMulti]_vars

-----------------------------------------------------------------------------
(* SpecStrategy: a Strategy driven by arbitrary update_bar, sma and atr calls *)

\* calls in one behaviour of SpecStrategy
MaxHelperOps == 4
\* the largest max_lookback given explicitly
MaxLookback == 3
\* the largest period sma and atr are asked for
MaxPeriod == 3

\* a bar with its own high and low
OhlcBar(dt, high, low, close) ==
    [symbol |-> "SYM", datetime |-> dt, open |-> close, high |-> high,
     low |-> low, close |-> close, volume |-> 0]

\* <<high, low, close>> of the bars appended: a flat bar, a bar above it, a
\* bar below that one, and a wide bar
BarShapes ==
    {<<Flt(1, 1), Flt(1, 1), Flt(1, 1)>>,
     <<Flt(4, 1), Flt(3, 1), Flt(4, 1)>>,
     <<Flt(2, 1), Flt(1, 1), Flt(1, 1)>>,
     <<Flt(4, 1), Flt(1, 1), Flt(3, 1)>>}

\* max_lookback as given in params, or left to its default
HelperLookbacks ==
    {Params(Some(n), None, None) : n \in 1 .. MaxLookback} \cup {Params(None, None, None)}

Periods == 1 .. MaxPeriod

\* a call on the Strategy as its caller sees it: what was called with what,
\* what it returned, and the strategy and portfolio state it was made in
HelperCall(op, arg, ret) ==
    [op |-> op, arg |-> arg, ret |-> ret, history |-> strat_history,
     bar |-> strat_bar, fields |-> strat_fields, portfolio |-> pvars]

\* sma(period) that uses up the observations it has read
SmaCall_Consuming(period) ==
    /\ helper_log' = Append(helper_log, HelperCall("sma", period, Sma(strat_history, period)))
    /\ strat_history' = IF Len(strat_history) < period THEN strat_history
                        ELSE SubSeq(strat_history, 1, Len(strat_history) - period)
    /\ UNCHANGED <<lookback, strat_bar, strat_fields, pvars>>

\* self.sma(period): lines 85-91 read self.history and assign nothing
SmaCall(period) ==
    /\ helper_log' = Append(helper_log, HelperCall("sma", period, Sma(strat_history, period)))
    /\ UNCHANGED <<svars, pvars>>

\* self.atr(period): lines 93-117 read self.history and assign nothing
AtrCall(period) ==
    /\ helper_log' = Append(helper_log, HelperCall("atr", period, Atr(strat_history, period)))
    /\ UNCHANGED <<svars, pvars>>

DoUpdateBar ==
    /\ nops < MaxHelperOps
    /\ \E shape \in BarShapes :
           LET b == OhlcBar(nops + 1, shape[1], shape[2], shape[3])
           IN  /\ UpdateBar(b)
               /\ helper_log' = Append(helper_log, HelperCall("update_bar", b, None))
    /\ nops' = nops + 1
    /\ UNCHANGED <<pvars, last, fvars, evars, db_bars, feed_symbol, feed_start,
                   feed_end, feed_log, strategy_class, strategy_params, runs, multi,
                   snap, replay>>

DoSma ==
    /\ nops < MaxHelperOps
    /\ \E period \in Periods : SmaCall(period)
    /\ nops' = nops + 1
    /\ UNCHANGED <<last, fvars, evars, db_bars, feed_symbol, feed_start,
                   feed_end, feed_log, strategy_class, strategy_params, runs, multi,
                   snap, replay>>

DoAtr ==
    /\ nops < MaxHelperOps
    /\ \E period \in Periods : AtrCall(period)
    /\ nops' = nops + 1
    /\ UNCHANGED <<last, fvars, evars, db_bars, feed_symbol, feed_start,
                   feed_end, feed_log, strategy_class, strategy_params, runs, multi,
                   snap, replay>>

\* a Strategy(params) holding a new Portfolio
InitStrategy ==
    /\ initial_cash = Flt(13, 1)
    /\ min_trade_size = Flt(1, 10)
    /\ cash = initial_cash
    /\ position = 0
    /\ entry_price = 0
    /\ history = <<>>
    /\ trades = <<>>
    /\ last = NoCall
    /\ nops = 0
    /\ CallersIdle
    /\ db_bars = OnlySym(<<>>)
    /\ feed_symbol = None /\ feed_start = None /\ feed_end = None
    /\ feed_rows = <<>> /\ feed_pos = 0 /\ feed_open = FALSE /\ feed_log = <<>>
    /\ strategy_class = "Strategy"
    /\ strategy_params \in HelperLookbacks
    /\ lookback = GetParam(strategy_params, "max_lookback", 300)
    /\ strat_bar = None /\ strat_history = <<>> /\ strat_fields = NoFields
    /\ runs = <<>> /\ multi = NoMulti
    /\ pc = "idle" /\ bar = None /\ bar_count = 0 /\ last_bar = None
    /\ orders = 0 /\ calls = <<>> /\ filled_at = <<>> /\ analyzer = None

NextStrategy == DoUpdateBar \/ DoSma \/ DoAtr

SpecStrategy == InitStrategy /\ [][NextStrategy]_vars

-----------------------------------------------------------------------------
(* SpecTrades: a Portfolio, and a caller holding the list Portfolio.trades gave *)

\* Portfolio.trades returns self._trades.copy(): a new list holding the same
\* record objects.  A record object is identified by its place in _trades
\* (records are only ever appended), so the returned list is modelled as the
\* list of the places of its records.
TradesCopy == [k \in 1 .. Len(trades) |-> k]

\* what the caller reads in the list it holds
SnapshotContents == [k \in 1 .. Len(snap.refs) |-> trades[snap.refs[k]]]

\* snapshot = portfolio.trades
DoTrades ==
    /\ nops < MaxOps
    /\ snap' = [taken |-> TRUE, refs |-> TradesCopy]
    /\ nops' = nops + 1
    /\ UNCHANGED <<pvars, last, fvars, svars, evars, db_bars, feed_symbol, feed_start,
                   feed_end, feed_log, strategy_class, strategy_params, runs, multi,
                   helper_log, replay>>

\* snapshot.pop(): the caller changes the list it holds
DoSnapshotPop ==
    /\ nops < MaxOps
    /\ snap.taken
    /\ snap.refs # <<>>
    /\ snap' = [snap EXCEPT !.refs = SubSeq(@, 1, Len(@) - 1)]
    /\ nops' = nops + 1
    /\ UNCHANGED <<pvars, last, fvars, svars, evars, db_bars, feed_symbol, feed_start,
                   feed_end, feed_log, strategy_class, strategy_params, runs, multi,
                   helper_log, replay>>

\* snapshot[k]["size"] = 0.0: the caller changes a record of the list it holds
DoSnapshotSetSize ==
    /\ nops < MaxOps
    /\ snap.taken
    /\ \E k \in 1 .. Len(snap.refs) :
           trades' = [trades EXCEPT ![snap.refs[k]].size = 0]
    /\ nops' = nops + 1
    /\ UNCHANGED <<initial_cash, min_trade_size, cash, position, entry_price, history,
                   last, fvars, svars, evars, xvars>>

NextTrades ==
    \/ DoBuy
    \/ DoSell
    \/ DoSellAll
    \/ DoUpdate
    \/ DoTrades
    \/ DoSnapshotPop
    \/ DoSnapshotSetSize

SpecTrades == Init /\ [][NextTrades]_vars

-----------------------------------------------------------------------------
(* SpecAnalyzer: Analyzer(portfolio) over a Portfolio with any trade log *)

\* records in the trade log of the Portfolio an Analyzer is built over
MaxLogLen == 4
\* points of the equity curve of the Portfolio an Analyzer is built over
MaxCurveLen == 4

\* equity values of the curve, all positive
EquitySet == {Flt(2, 1), Flt(3, 1), Flt(4, 1)}

\* equity curves: the k-th point is stamped k
Curves ==
    UNION {{[k \in 1 .. n |-> <<k, eq[k]>>] : eq \in [1 .. n -> EquitySet]} :
              n \in 0 .. MaxCurveLen}

\* size and price of the records
LogSizes == {Flt(1, 1), Flt(2, 1)}
LogPrices == {Flt(1, 1), Flt(3, 1)}

\* the records of a trade log: fills whose datetime update() has resolved
LogRecords ==
    {[BuyRecord(size, price, FMul(size, price)) EXCEPT !.datetime = Some(1)] :
        size \in LogSizes, price \in LogPrices}
    \cup
    {[SellRecord(size, price, FMul(size, price)) EXCEPT !.datetime = Some(1)] :
        size \in LogSizes, price \in LogPrices}

TradeLogs == UNION {[1 .. n -> LogRecords] : n \in 0 .. MaxLogLen}

\* lines 31-45 and 81-88: _calculate_metrics starts; an empty equity curve
\* ends it at once, a log without trades skips the replay
AnalyzerBegin ==
    /\ replay.phase = "start"
    /\ replay' =
          IF history = <<>> THEN [replay EXCEPT !.phase = "store"]
          ELSE IF Len(trades) > 0 THEN [replay EXCEPT !.phase = "replay"]
          ELSE [replay EXCEPT !.phase = "store"]
    /\ UNCHANGED <<pvars, last, nops, fvars, svars, evars, db_bars, feed_symbol,
                   feed_start, feed_end, feed_log, strategy_class, strategy_params,
                   runs, multi, helper_log, snap>>

\* lines 90-98: one iteration of `for t in trades`
AnalyzerReplayTrade ==
    /\ replay.phase = "replay"
    /\ replay.i <= Len(trades)
    /\ LET r == ReplayOne(trades[replay.i], replay.position, replay.entry_price)
       IN  replay' = [replay EXCEPT
                         !.i = @ + 1,
                         !.position = r.position,
                         !.entry_price = r.entry_price,
                         !.realized_pnl = @ \o r.pnl,
                         !.trace = Append(@, [position |-> replay.position,
                                              entry_price |-> replay.entry_price,
                                              pnl |-> r.pnl])]
    /\ UNCHANGED <<pvars, last, nops, fvars, svars, evars, db_bars, feed_symbol,
                   feed_start, feed_end, feed_log, strategy_class, strategy_params,
                   runs, multi, helper_log, snap>>

\* lines 100-125 (or 33-44): the metrics are stored; Analyzer.__init__ leaves
\* symbol and strategy_name None and bar_count 0
AnalyzerStore ==
    /\ \/ replay.phase = "store"
       \/ replay.phase = "replay" /\ replay.i > Len(trades)
    /\ replay' = [replay EXCEPT !.phase = "done"]
    /\ analyzer' = Some([metrics |-> CalculateMetrics, symbol |-> None,
                         strategy_name |-> None, bar_count |-> 0])
    /\ UNCHANGED <<pvars, last, nops, fvars, svars, pc, bar, bar_count, last_bar, orders,
                   calls, filled_at, db_bars, feed_symbol, feed_start, feed_end,
                   feed_log, strategy_class, strategy_params, runs, multi,
                   helper_log, snap>>

\* Analyzer(portfolio) is called on a Portfolio that has any trade log and an
\* equity curve of at most one point, or no trade and any equity curve
InitAnalyzer ==
    /\ initial_cash = Flt(13, 1)
    /\ min_trade_size = Flt(1, 10)
    /\ cash = initial_cash
    /\ position = 0
    /\ entry_price = 0
    /\ \/ history \in {<<>>, <<<<1, initial_cash>>>>} /\ trades \in TradeLogs
       \/ history \in Curves /\ trades = <<>>
    /\ last = NoCall
    /\ nops = 0
    /\ helper_log = <<>>
    /\ snap = NoSnapshot
    /\ replay = [phase |-> "start", i |-> 1, position |-> 0, entry_price |-> 0,
                 realized_pnl |-> <<>>, trace |-> <<>>]
    /\ EngineIdle

NextAnalyzer == AnalyzerBegin \/ AnalyzerReplayTrade \/ AnalyzerStore

SpecAnalyzer == InitAnalyzer /\ [][NextAnalyzer]_vars

-----------------------------------------------------------------------------
(* SpecAtrExit: Engine.run with SMA_ATR_Exit over bars with highs and lows *)

\* bars the feed yields in one behaviour of SpecAtrExit
MaxExitBars == 5

\* <<high, low, close>> of the bars: flat bars at three levels, and a bar
\* that closes at its low
ExitShapes ==
    {<<Flt(1, 1), Flt(1, 1), Flt(1, 1)>>,
     <<Flt(3, 1), Flt(3, 1), Flt(3, 1)>>,
     <<Flt(4, 1), Flt(4, 1), Flt(4, 1)>>,
     <<Flt(5, 1), Flt(3, 1), Flt(3, 1)>>}

\* the rows of the feed: bars 1 .. n, each of one of the shapes
ExitRows ==
    UNION {{[d \in 1 .. n |-> OhlcBar(d, f[d][1], f[d][2], f[d][3])] :
               f \in [1 .. n -> ExitShapes]} : n \in 0 .. MaxExitBars}

\* atr_period and atr_mult given explicitly, and atr_mult left to its default
ExitParamsSet ==
    {AtrParams(Some(1), Some(Flt(1, 1))), AtrParams(Some(2), Some(Flt(1, 2))),
     AtrParams(Some(2), None)}

\* lines 51-52 moving the stop to wherever the close has gone
Ratchet_Follow(stop, potential_new_stop) == potential_new_stop

\* lines 51-52: the stop moves to the potential new stop only when that is
\* higher
Ratchet(stop, potential_new_stop) ==
    IF potential_new_stop > stop THEN potential_new_stop ELSE stop

\* SMA_ATR_Exit.next (sma_atr_exit.py lines 21-74)
AtrExitNext ==
    /\ pc = "in_next"
    /\ strategy_class = "SMA_ATR_Exit"
    /\ LET b == bar[1]
           h == DequeAppend(strat_history, b, lookback)
           sma_fast == Sma(h, strat_fields.fast_period)
           sma_slow == Sma(h, strat_fields.slow_period)
           atr_value == Atr(h, strat_fields.atr_period)
           is_bullish == sma_fast[1] > sma_slow[1]
           prev_bullish == strat_fields.prev_bullish
           current_pos == position
           holding == current_pos > Flt(1, 10)
           potential_new_stop ==
               FSub(b.close, FMul(atr_value[1], strat_fields.atr_multiplier))
           stop == IF holding
                   THEN Ratchet(strat_fields.trailing_stop_price, potential_new_stop)
                   ELSE strat_fields.trailing_stop_price
           hit == holding /\ b.low <= stop
           cross == is_bullish /\ ~prev_bullish[1]
           entering == cross /\ current_pos < Flt(1, 10)
       IN  /\ strat_bar' = Some(b)
           /\ strat_history' = h
           /\ UNCHANGED lookback
           /\ IF sma_fast = None \/ sma_slow = None \/ atr_value = None
              THEN UNCHANGED <<strat_fields, pvars, last>>
              ELSE IF prev_bullish = None
              THEN /\ strat_fields' =
                        [strat_fields EXCEPT !.prev_bullish = Some(is_bullish)]
                   /\ UNCHANGED <<pvars, last>>
              ELSE /\ strat_fields' =
                        [strat_fields EXCEPT
                           !.prev_bullish = Some(is_bullish),
                           !.trailing_stop_price =
                               IF entering THEN potential_new_stop
                               ELSE IF hit THEN 0
                               ELSE stop]
                   /\ IF hit THEN CallSell(current_pos, b.close)
                      ELSE IF entering THEN CallBuy(strat_fields.qty, b.close)
                      ELSE UNCHANGED <<pvars, last>>
    /\ NoteFill(bar_count)
    /\ pc' = "update"
    /\ UNCHANGED <<xvars, nops, fvars, bar, bar_count, last_bar, orders, calls, analyzer>>

InitAtrExit ==
    /\ initial_cash = Flt(13, 1)
    /\ min_trade_size = Flt(1, 10)
    /\ cash = initial_cash
    /\ position = 0
    /\ entry_price = 0
    /\ history = <<>>
    /\ trades = <<>>
    /\ last = NoCall
    /\ nops = 0
    /\ CallersIdle
    /\ feed_rows \in ExitRows
    /\ db_bars = OnlySym([d \in DOMAIN feed_rows |-> feed_rows[d].close])
    /\ feed_symbol = Some("SYM") /\ feed_start = None /\ feed_end = None
    /\ feed_pos = 0
    /\ feed_open = TRUE
    /\ feed_log = <<>>
    /\ lookback = 0 /\ strat_bar = None /\ strat_history = <<>>
    /\ strat_fields = NoFields
    /\ strategy_class = "SMA_ATR_Exit"
    /\ strategy_params \in ExitParamsSet
    /\ pc = "idle" /\ bar = None /\ bar_count = 0 /\ last_bar = None
    /\ orders = 0 /\ calls = <<>> /\ filled_at = <<>> /\ analyzer = None
    /\ runs = <<>> /\ multi = NoMulti

NextAtrExit ==
    \/ RunBegin
    \/ OnStart
    \/ FeedNext
    \/ FeedStop
    \/ EngineUpdateBar
    \/ EngineNext
    \/ AtrExitNext
    \/ EnginePortfolioUpdate
    \/ EngineOnEnd
    \/ EngineAnalyze

SpecAtrExit == InitAtrExit /\ [][NextAtrExit]_vars

-----------------------------------------------------------------------------
(* SpecReset: a Portfolio driven by arbitrary calls, reset() among them *)

\* Portfolio.reset: self.__init__(initial_cash = self.initial_cash); the
\* min_trade_size parameter is not passed and takes its default 0.1
Reset == PortfolioInit(initial_cash, Flt(1, 10))

CallReset ==
    /\ Reset
    /\ last' = Observe("reset", [initial_cash |-> initial_cash,
                                 min_trade_size |-> min_trade_size], None)

DoReset ==
    /\ nops < MaxOps
    /\ CallReset
    /\ nops' = nops + 1
    /\ UNCHANGED <<xvars, fvars, svars, evars>>

NextReset == DoBuy \/ DoSell \/ DoSellAll \/ DoUpdate \/ DoReset

SpecReset == Init /\ [][NextReset]_vars

-----------------------------------------------------------------------------
(* Claims *)

\* vocabulary of the claims about one Portfolio call: `last` holds the call
\* and the state before it, the unprimed variables the state after it
IsBuy == last.op = "buy"
IsSell == last.op \in {"sell", "sell_all"}
IsUpdate == last.op = "update"
\* the size a buy may fill at most: cash_before / price
Affordable == FDiv(last.cash, last.args.price)
BuyFill == Min(last.args.size, Affordable)
SellFill == Min(last.args.size, last.position)
ValidBuy == IsBuy /\ last.args.size > 0 /\ last.args.price > 0
ValidSell == IsSell /\ last.args.size > 0 /\ last.args.price > 0 /\ last.position > 0
BuyNotDropped == ValidBuy /\ BuyFill >= min_trade_size
SellNotDropped == ValidSell /\ SellFill >= min_trade_size
Unresolved(type, price) ==
    /\ Len(trades) = Len(last.trades) + 1
    /\ SubSeq(trades, 1, Len(last.trades)) = last.trades
    /\ trades[Len(trades)].type = type
    /\ trades[Len(trades)].price = price
    /\ trades[Len(trades)].datetime = None
LedgerUnchanged ==
    /\ cash = last.cash
    /\ position = last.position
    /\ entry_price = last.entry_price
    /\ trades = last.trades
    /\ history = last.history

\* C2: in every state reachable by buy, sell, sell_all and update calls from
\* initial_cash >= 0, cash >= 0 and position >= 0.
\* Violated: the float product (cash/price)*price can exceed cash.
C2_CashAndPositionNonNegative == cash >= 0 /\ position >= 0

\* the part of C2 about the position, which holds
PositionNonNegative == position >= 0

\* C3: a buy with size > 0 and price > 0 that is not dropped fills
\* min(size, cash_before/price): cash decreases by fill*price, position grows
\* by fill, entry_price becomes price, one unresolved BUY record is appended,
\* the fill is <= size and <= cash_before/price, and a request larger than
\* affordable leaves cash exactly 0.
\* Violated in its last part: the rounded cost differs from cash_before.
C3_BuyFillsClamped ==
    BuyNotDropped =>
        /\ cash = FSub(last.cash, FMul(BuyFill, last.args.price))
        /\ position = FAdd(last.position, BuyFill)
        /\ entry_price = last.args.price
        /\ Unresolved("BUY", last.args.price)
        /\ history = last.history
        /\ BuyFill <= last.args.size
        /\ BuyFill <= Affordable
        /\ (last.args.size > Affordable => cash = 0)

\* C3 without its last part (cash exactly 0 after a clamped buy), which holds
BuyFillsClampedUpToRounding ==
    BuyNotDropped =>
        /\ cash = FSub(last.cash, FMul(BuyFill, last.args.price))
        /\ position = FAdd(last.position, BuyFill)
        /\ entry_price = last.args.price
        /\ Unresolved("BUY", last.args.price)
        /\ history = last.history

\* C4: a sell with size > 0, price > 0 and position > 0 that is not dropped
\* fills min(size, position_before): cash increases by fill*price, position
\* decreases by fill (before any dust snap), one unresolved SELL record is
\* appended, and the fill is <= size and <= position_before.
C4_SellFillsClamped ==
    SellNotDropped =>
        /\ cash = FAdd(last.cash, FMul(SellFill, last.args.price))
        /\ \/ position = FSub(last.position, SellFill)
           \/ position = 0 /\ FSub(last.position, SellFill) < min_trade_size
        /\ Unresolved("SELL", last.args.price)
        /\ trades[Len(trades)].size = PyRound(SellFill, 6)
        /\ history = last.history
        /\ SellFill <= last.args.size
        /\ SellFill <= last.position

\* C4's case: a sell of more than is held has filled the whole position
C4_Witness ==
    /\ SellNotDropped
    /\ last.op = "sell"
    /\ last.args.size > last.position
    /\ cash > last.cash
    /\ position = 0

\* C5: a rejected order (buy with size <= 0 or price <= 0; sell with size <= 0,
\* price <= 0 or position <= 0; a buy or sell whose clamped size is below
\* min_trade_size) leaves cash, position, entry_price, the trade log and the
\* equity curve unchanged.
C5_RejectedOrderIsNoOp ==
    /\ (IsBuy /\ ~BuyNotDropped) => LedgerUnchanged
    /\ (IsSell /\ ~SellNotDropped) => LedgerUnchanged

\* C5's case: on a portfolio that has traded, a valid buy was dropped for its
\* clamped size being below min_trade_size, and so was a valid sell
C5_Witness ==
    /\ IsBuy \/ IsSell
    /\ last.trades # <<>>
    /\ \/ ValidBuy /\ ~BuyNotDropped /\ last.cash > 0
       \/ ValidSell /\ ~SellNotDropped

\* C8: update(bar) computes cash + position*bar.close, appends exactly the
\* point (bar.datetime, that value), returns it, and leaves cash, position and
\* entry_price unchanged.
C8_UpdateMarksToMarket ==
    IsUpdate =>
        LET total_equity == FAdd(last.cash, FMul(last.position, last.args.bar.close))
        IN  /\ history = Append(last.history, <<last.args.bar.datetime, total_equity>>)
            /\ last.ret = Some(total_equity)
            /\ cash = last.cash
            /\ position = last.position
            /\ entry_price = last.entry_price

\* C8's case: an update right after a fill, with a position marked at a close
\* other than its entry price
C8_Witness ==
    /\ IsUpdate
    /\ position > 0
    /\ last.args.bar.close # entry_price
    /\ last.trades # <<>>
    /\ last.trades[Len(last.trades)].datetime = None

\* C9: when a filled sell leaves a position below min_trade_size, position
\* becomes 0 and entry_price 0; otherwise position is position_before - fill
\* and entry_price is unchanged.
C9_DustSnap ==
    SellNotDropped =>
        LET remaining == FSub(last.position, SellFill)
        IN  IF remaining < min_trade_size
            THEN position = 0 /\ entry_price = 0
            ELSE position = remaining /\ entry_price = last.entry_price

\* C9's case: a partial sell left a non-zero remainder below min_trade_size
C9_Witness ==
    /\ SellNotDropped
    /\ FSub(last.position, SellFill) > 0
    /\ FSub(last.position, SellFill) < min_trade_size
    /\ position = 0
    /\ entry_price = 0

-----------------------------------------------------------------------------
(* Claims about Engine.run (SpecEngine) *)

IsPrefix(p, q) == Len(p) <= Len(q) /\ SubSeq(q, 1, Len(p)) = p

\* the three per-bar calls, for every bar in order
RECURSIVE LoopCalls(_)
LoopCalls(bars) ==
    IF bars = <<>> THEN <<>>
    ELSE <<Call("update_bar", Some(Head(bars))), Call("next", Some(Head(bars))),
           Call("update", Some(Head(bars)))>> \o LoopCalls(Tail(bars))

FullTrace(bars) ==
    <<Call("on_start", None)>> \o LoopCalls(bars) \o <<Call("on_end", None)>>

\* the loop is between two bars, or past the last one
BetweenBars == pc \in {"loop", "on_end", "analyze", "done"}
Finished == pc = "done"

\* C1: for a feed yielding b1..bN the calls of Engine.run are exactly on_start;
\* then update_bar(b_i), next(b_i), Portfolio.update(b_i) for i = 1..N in feed
\* order; then on_end: at every moment the calls made are a prefix of that
\* sequence, and at the end they are all of it.
C1_CallSequence ==
    /\ IsPrefix(calls, FullTrace(feed_rows))
    /\ Finished => calls = FullTrace(feed_rows)

\* C1's case: a run over at least two bars has finished
C1_Witness == Finished /\ Len(feed_rows) >= 2 /\ Len(calls) = 2 + 3 * Len(feed_rows)

\* C6: after k bars have been consumed the equity curve has exactly k points,
\* the i-th point's timestamp is the i-th bar's datetime, the timestamps are
\* non-decreasing, and on_end adds no point.
C6_EquityCurvePerBar ==
    /\ BetweenBars => Len(history) = bar_count
    /\ ~BetweenBars /\ pc # "idle" /\ pc # "on_start" => Len(history) = bar_count - 1
    /\ bar_count <= Len(feed_rows)
    /\ \A i \in 1 .. Len(history) : history[i][1] = feed_rows[i].datetime
    /\ \A i \in 1 .. Len(history) - 1 : history[i][1] <= history[i + 1][1]
    /\ Finished => Len(history) = Len(feed_rows)

\* C6's case: a finished run over at least two bars whose on_end sold a position
C6_Witness ==
    /\ Finished
    /\ Len(history) >= 2
    /\ filled_at # <<>>
    /\ filled_at[Len(filled_at)] = 0

LastFillOfStepTimestamped ==
    BetweenBars =>
        \A k \in 1 .. Len(filled_at) :
            (filled_at[k] > 0
               /\ (k = Len(filled_at) \/ filled_at[k + 1] # filled_at[k])) =>
                trades[k].datetime = Some(feed_rows[filled_at[k]].datetime)

\* C10: a feed of zero bars still completes run(): on_start and on_end are
\* each called once, Portfolio.update never, no trade is recorded, the equity
\* curve is empty, and the metrics are the degenerate set.
C10_EmptyFeed ==
    (Finished /\ feed_rows = <<>>) =>
        /\ calls = <<Call("on_start", None), Call("on_end", None)>>
        /\ trades = <<>>
        /\ history = <<>>
        /\ bar_count = 0
        /\ analyzer # None
        /\ analyzer[1].bar_count = 0
        /\ analyzer[1].metrics =
             [total_equity |-> initial_cash, total_return_pct |-> 0, cagr_pct |-> 0,
              sharpe |-> 0, volatility_annualized |-> 0, max_drawdown_pct |-> 0,
              win_rate_pct |-> 0, profit_factor |-> 0, num_trades |-> 0]

\* C10's case: a run over an empty feed has returned its Analyzer
C10_Witness == Finished /\ feed_rows = <<>> /\ analyzer # None /\ ~feed_open

\* a run whose whole trade log is one round trip: a BUY marked to market, then
\* a SELL of the same size at a higher price, marked to market as well
RoundTrip ==
    /\ BetweenBars
    /\ Len(trades) = 2
    /\ trades[1].type = "BUY"
    /\ trades[2].type = "SELL"
    /\ trades[1].datetime # None
    /\ trades[2].datetime # None
    /\ trades[2].size = trades[1].size
    /\ trades[2].price > trades[1].price

\* C11: starting flat, a BUY of n at p1 marked to market, followed by a SELL
\* of all n at p2 > p1 marked to market, ends with
\* cash = initial_cash - n*p1 + n*p2, position = 0, equity = cash, exactly one
\* realized outcome (p2 - p1)*n, and a win rate of 100%.
C11_RoundTripProfit ==
    RoundTrip =>
        LET n == trades[1].size
            p1 == trades[1].price
            p2 == trades[2].price
        IN  /\ cash = FAdd(FSub(initial_cash, FMul(n, p1)), FMul(n, p2))
            /\ position = 0
            /\ TotalEquity = cash
            /\ RealizedPnl(trades) = <<FMul(FSub(p2, p1), n)>>
            /\ Finished => analyzer[1].metrics.win_rate_pct = Flt(100, 1)

\* C11's case: a run that was one profitable round trip has been analyzed
C11_Witness ==
    /\ Finished
    /\ RoundTrip
    /\ analyzer # None
    /\ analyzer[1].metrics.num_trades = 2
    /\ cash > initial_cash

\* C12: after Engine.run() over a feed of at least one bar whose last close is
\* > 0, the portfolio holds no position: a position open after the last bar
\* has been sold in full by on_end at the last bar's close.
C12_OnEndLiquidates ==
    (pc \in {"analyze", "done"} /\ feed_rows # <<>>
       /\ feed_rows[Len(feed_rows)].close > 0) =>
        /\ position = 0
        /\ last.op = "sell_all" =>
              /\ last.position > 0
              /\ last.args.price = feed_rows[Len(feed_rows)].close
              /\ Unresolved("SELL", feed_rows[Len(feed_rows)].close)
              /\ trades[Len(trades)].size = PyRound(last.position, 6)
              /\ cash = FAdd(last.cash, FMul(last.position, last.args.price))

\* C12's case: the run ended with a position open, which on_end sold
C12_Witness ==
    /\ Finished
    /\ last.op = "sell_all"
    /\ last.position > 0
    /\ position = 0
    /\ trades[Len(trades)].type = "SELL"

-----------------------------------------------------------------------------
(* Claims about SQLiteFeed (SpecFeed) *)

\* the calls since the feed was constructed or last rewound, that call first
RECURSIVE SinceRewind(_)
SinceRewind(log) ==
    IF log = <<>> THEN <<>>
    ELSE IF log[Len(log)].op \in {"__init__", "rewind"} THEN <<log[Len(log)]>>
    ELSE Append(SinceRewind(SubSeq(log, 1, Len(log) - 1)), log[Len(log)])

\* the requests for a bar among calls, and the bars they returned
Requests(log) == SelectSeq(log, LAMBDA c : c.op = "next")
Yielded(log) ==
    LET got == SelectSeq(Requests(log), LAMBDA c : c.ret.kind = "bar")
    IN  [i \in 1 .. Len(got) |-> got[i].ret.val[1]]
Datetimes(bars) == {bars[i].datetime : i \in 1 .. Len(bars)}

\* C13: iterating a feed yields every stored bar of its symbol exactly once,
\* in ascending datetime order, then signals exhaustion; every further request
\* after exhaustion (without rewind) again signals exhaustion, never an error
\* and never a bar.
C13_FeedIteration ==
    FeedExists =>
        LET seg == Requests(SinceRewind(feed_log))
            stored == db_bars[feed_symbol[1]]
        IN  \A i \in 1 .. Len(seg) :
                LET before == Yielded(SubSeq(seg, 1, i - 1))
                IN  /\ seg[i].ret.kind \in {"bar", "stop"}
                    /\ seg[i].ret.kind = "bar" =>
                          LET b == seg[i].ret.val[1]
                          IN  /\ b.symbol = feed_symbol[1]
                              /\ b.datetime \in DOMAIN stored
                              /\ b.close = stored[b.datetime]
                              /\ \A d \in Datetimes(before) : d < b.datetime
                    /\ seg[i].ret.kind = "stop" => Datetimes(before) = DOMAIN stored

\* C13's case: two bars were yielded, then exhaustion was signalled twice
C13_Witness ==
    /\ FeedExists
    /\ LET seg == Requests(SinceRewind(feed_log))
       IN  /\ Len(seg) = 4
           /\ Len(Yielded(seg)) = 2
           /\ seg[3].ret.kind = "stop"
           /\ seg[4].ret.kind = "stop"

\* C14: a feed constructed with a start bound, an end bound, or both yields
\* exactly the bars of its symbol with start <= datetime <= end (a missing
\* bound is unbounded), and constructing it succeeds for every combination of
\* present and absent bounds.
\* Violated: with any bound the query is "WHERE  AND symbol = ? AND ...",
\* which sqlite rejects, so the constructor raises.
C14_BoundedFeed ==
    feed_log # <<>> =>
        LET start == feed_log[1].args[2]
            end == feed_log[1].args[3]
            stored == db_bars[feed_log[1].args[1]]
        IN  /\ feed_log[1].ret.kind = "ok"
            /\ FeedExists
            /\ Datetimes(feed_rows) =
                  {d \in DOMAIN stored : /\ start # None => start[1] <= d
                                         /\ end # None => d <= end[1]}

\* the part of C14 that holds: a feed without bounds is constructed and
\* selects every bar of its symbol; with a bound, construction raises
UnboundedFeedOnly ==
    feed_log # <<>> =>
        IF feed_log[1].args[2] = None /\ feed_log[1].args[3] = None
        THEN /\ feed_log[1].ret.kind = "ok"
             /\ FeedExists
             /\ Datetimes(feed_rows) = DOMAIN db_bars[feed_log[1].args[1]]
        ELSE feed_log[1].ret = Raised("OperationalError") /\ ~FeedExists

\* C15: rewind() on a feed in any state (fresh, partly consumed, exhausted)
\* resets it: iterating the same feed afterwards yields the complete sequence
\* again from the first bar, the sequence a freshly constructed feed yields.
C15_RewindRestarts ==
    (FeedExists /\ SinceRewind(feed_log)[1].op = "rewind") =>
        LET seg == SinceRewind(feed_log)
            fresh == SetupQuery(db_bars, feed_symbol[1], feed_start, feed_end)[1]
        IN  /\ seg[1].ret.kind = "ok"
            /\ Len(seg) = 1 => feed_open /\ feed_pos = 0 /\ feed_rows = fresh
            /\ IsPrefix(Yielded(seg), fresh)
            /\ \A i \in 2 .. Len(seg) :
                  (seg[i].op = "next" /\ seg[i].ret.kind = "stop") =>
                      Yielded(SubSeq(seg, 1, i - 1)) = fresh

\* C15's case: an exhausted feed was rewound and then iterated to exhaustion
C15_Witness ==
    /\ FeedExists
    /\ LET seg == SinceRewind(feed_log)
       IN  /\ seg[1].op = "rewind"
           /\ ~seg[1].open
           /\ seg[1].pos > 0
           /\ Yielded(seg) # <<>>
           /\ seg[Len(seg)].ret.kind = "stop"

\* the state of the cursor after the i-th call of the log
PosAfter(i) == IF i < Len(feed_log) THEN feed_log[i + 1].pos ELSE feed_pos
OpenAfter(i) == IF i < Len(feed_log) THEN feed_log[i + 1].open ELSE feed_open

\* C16: at any point of a feed's lifecycle (before iteration, part-way, after
\* exhaustion, after rewind) get_first_datetime and get_last_datetime return
\* the minimum and maximum stored timestamp of the symbol and do not change
\* which bar the main sequence yields next.
\* Violated: after exhaustion self.conn is None and both raise AttributeError.
C16_PeeksAnywhere ==
    \A i \in 1 .. Len(feed_log) :
        LET c == feed_log[i]
            stored == db_bars[feed_symbol[1]]
        IN  /\ c.op = "get_first_datetime" =>
                  c.ret = Returned("value", MinDatetime(stored))
            /\ c.op = "get_last_datetime" =>
                  c.ret = Returned("value", MaxDatetime(stored))
            /\ c.op \in {"get_first_datetime", "get_last_datetime"} =>
                  PosAfter(i) = c.pos /\ OpenAfter(i) = c.open

\* the part of C16 that holds: while the feed is open the peeks return the
\* minimum and maximum, a closed (exhausted) feed raises, and neither moves the
\* cursor
PeeksWhileOpen ==
    \A i \in 1 .. Len(feed_log) :
        LET c == feed_log[i]
            stored == db_bars[feed_symbol[1]]
        IN  c.op \in {"get_first_datetime", "get_last_datetime"} =>
                /\ c.open /\ c.op = "get_first_datetime" =>
                      c.ret = Returned("value", MinDatetime(stored))
                /\ c.open /\ c.op = "get_last_datetime" =>
                      c.ret = Returned("value", MaxDatetime(stored))
                /\ ~c.open => c.ret = Raised("AttributeError")
                /\ PosAfter(i) = c.pos /\ OpenAfter(i) = c.open

-----------------------------------------------------------------------------
(* Claims about repeated runs and the concrete strategies (SpecRuns) *)

\* the feed was rewound between the first run and the running one
RewoundBetweenRuns ==
    /\ Len(runs) = 1
    /\ Len(feed_log) = 1
    /\ feed_log[1].op = "rewind"

\* C17: running the same feed twice, rewound between the runs, through two
\* Engine runs with the same strategy class, parameters, initial cash and
\* minimum trade size produces identical trade logs, equity curves and
\* Analyzer metrics.
C17_Determinism ==
    (RewoundBetweenRuns /\ pc \in {"done", "raised"}) =>
        /\ pc = runs[1].outcome
        /\ trades = runs[1].trades
        /\ history = runs[1].history
        /\ analyzer = runs[1].analyzer
        /\ Finished => analyzer[1].metrics = runs[1].analyzer[1].metrics

\* C17's case: a second run over the rewound feed has returned, after a first
\* run that traded over at least two bars
C17_Witness ==
    /\ RewoundBetweenRuns
    /\ Finished
    /\ Len(runs[1].history) >= 2
    /\ Len(trades) >= 2
    /\ analyzer # None
    /\ analyzer[1].metrics.num_trades >= 2

\* C19: every run() constructs a new Strategy and a new Portfolio and binds
\* them: when a run starts, no cash, position, entry_price, trade log or
\* equity curve, and no rolling history, current bar or strategy-specific
\* field of an earlier run is visible to it.
C19_FreshStatePerRun ==
    pc = "on_start" =>
        /\ cash = initial_cash
        /\ position = 0
        /\ entry_price = 0
        /\ trades = <<>>
        /\ history = <<>>
        /\ strat_history = <<>>
        /\ strat_bar = None
        /\ strat_fields = StrategyFields(strategy_class, strategy_params)

\* C19's case: a second run starts after a first one that traded and held a
\* rolling history
C19_Witness ==
    /\ pc = "on_start"
    /\ Len(runs) = 1
    /\ runs[1].trades # <<>>
    /\ runs[1].history # <<>>
    /\ runs[1].cash # initial_cash
    /\ trades = <<>>

\* the bars the running run() has processed, in feed order
Processed == SubSeq(feed_rows, feed_pos - bar_count + 1, feed_pos)

\* C20: for every strategy class, after the Engine has processed k bars of a
\* run the strategy's rolling buffer holds exactly the most recent min(k, N)
\* bars, each exactly once, in feed order (N = max_lookback, default 300).
\* Violated: the next() of SMACrossover (and of every concrete class but
\* BuyAndHold) calls update_bar(bar) again, so each bar is held twice.
C20_RollingBuffer ==
    BetweenBars => strat_history = LastN(Processed, Min(bar_count, lookback))

\* the part of C20 that holds: the base contract (update_bar called by the
\* Engine alone) and BuyAndHold keep the most recent min(k, N) bars
RollingBufferOfBaseContract ==
    (BetweenBars /\ strategy_class \in {"Strategy", "BuyAndHold"}) =>
        strat_history = LastN(Processed, Min(bar_count, lookback))

\* the periods sma is asked for
SmaPeriods == 1 .. MaxRunBars

\* a step of the decision step next(bar) of the k-th bar (k = bar_count);
\* the buffer sma reads inside it is the buffer the step leaves
DecisionStep == pc = "in_next"

\* C21: in an Engine run of any strategy class with lookback N >= p, sma(p)
\* evaluated inside the decision step for the k-th bar is unavailable for
\* every k < p and available for every k >= p.
\* Violated: SMACrossover.next has appended the bar a second time before it
\* evaluates sma, so with 2k observations sma(p) is available from bar
\* ceil(p/2) on (sma(3) at the second bar, sma(20) at the tenth).
C21_SmaWarmup ==
    [][DecisionStep =>
          \A p \in SmaPeriods :
              p <= lookback => (Sma(strat_history', p) = None <=> bar_count < p)]_vars

\* the part of C21 that holds: with update_bar called by the Engine alone (the
\* base contract, BuyAndHold) sma(p) is unavailable before the p-th bar and
\* available from it on
SmaWarmupOfBaseContract ==
    [][(DecisionStep /\ strategy_class \in {"Strategy", "BuyAndHold"}) =>
          \A p \in SmaPeriods :
              p <= lookback => (Sma(strat_history', p) = None <=> bar_count < p)]_vars

\* C28: the Analyzer returned by Engine.run() is tagged with the Feed's
\* symbol, the strategy's name (the name of its class), and a bar count equal
\* to the number of bars the Feed yielded during that run: all the rows the
\* cursor has fetched in a first run or a run over a rewound feed, and none in
\* a run over the feed a completed run has exhausted.
C28_AnalyzerTags ==
    Finished =>
        /\ analyzer[1].symbol = feed_symbol
        /\ analyzer[1].strategy_name = Some(strategy_class)
        /\ (runs = <<>> \/ RewoundBetweenRuns) => analyzer[1].bar_count = feed_pos
        /\ (Len(runs) = 1 /\ feed_log = <<>> /\ runs[1].outcome = "done") =>
              analyzer[1].bar_count = 0

\* C28's case: a run of SMACrossover over at least two bars has returned
C28_Witness ==
    /\ Finished
    /\ strategy_class = "SMACrossover"
    /\ feed_pos >= 2
    /\ analyzer[1].bar_count >= 2

-----------------------------------------------------------------------------
(* Claims about Engine.run_multiple (SpecMulti) *)

\* the SQLiteFeed constructor calls made so far
FeedConstructions == SelectSeq(feed_log, LAMBDA c : c.op = "__init__")

-----------------------------------------------------------------------------
(* Claims about the rolling buffer, sma and atr (SpecStrategy) *)

\* the state the i-th logged call left: the state the next call was made in,
\* or the current state
HistoryAfter(i) ==
    IF i < Len(helper_log) THEN helper_log[i + 1].history ELSE strat_history
BarAfter(i) ==
    IF i < Len(helper_log) THEN helper_log[i + 1].bar ELSE strat_bar
FieldsAfter(i) ==
    IF i < Len(helper_log) THEN helper_log[i + 1].fields ELSE strat_fields
PortfolioAfter(i) ==
    IF i < Len(helper_log) THEN helper_log[i + 1].portfolio ELSE pvars

\* C22: the rolling buffer's length never exceeds its capacity N; appending
\* to a full buffer drops exactly the oldest element and keeps the remaining
\* elements in arrival order (and appending to a buffer that is not full
\* drops nothing).
C22_BoundedBuffer ==
    /\ Len(strat_history) <= lookback
    /\ \A i \in 1 .. Len(helper_log) :
          LET c == helper_log[i]
              after == HistoryAfter(i)
          IN  c.op = "update_bar" =>
                IF Len(c.history) = lookback
                THEN /\ Len(after) = lookback
                     /\ \A k \in 1 .. lookback - 1 : after[k] = c.history[k + 1]
                     /\ after[lookback] = c.arg
                ELSE after = c.history \o <<c.arg>>

\* C22's case: a bar was appended to a full buffer of at least two bars
C22_Witness ==
    /\ helper_log # <<>>
    /\ helper_log[Len(helper_log)].op = "update_bar"
    /\ Len(helper_log[Len(helper_log)].history) = lookback
    /\ lookback >= 2

\* the closes of h[from .. to] added up exactly
RECURSIVE SumOfCloses(_, _, _)
SumOfCloses(h, from, to) ==
    IF from > to THEN 0 ELSE h[from].close + SumOfCloses(h, from + 1, to)

\* C23: sma(period) returns 'unavailable' (and raises nothing) exactly when
\* the buffer holds fewer than period observations, and otherwise the
\* arithmetic mean of the closes of the last period observations (the exact
\* mean, rounded once to a float).
C23_Sma ==
    \A i \in 1 .. Len(helper_log) :
        LET c == helper_log[i]
            n == Len(c.history)
        IN  c.op = "sma" =>
              /\ c.ret = None <=> n < c.arg
              /\ n >= c.arg =>
                    c.ret = Some(Round(SumOfCloses(c.history, n - c.arg + 1, n), c.arg))

\* C23's case: sma over a period shorter than the buffer, whose oldest bar
\* has another close than the bars averaged
C23_Witness ==
    \E i \in 1 .. Len(helper_log) :
        LET c == helper_log[i]
        IN  /\ c.op = "sma"
            /\ c.arg >= 2
            /\ Len(c.history) > c.arg
            /\ c.ret # None
            /\ c.ret # Some(Mean(Closes(c.history)))
            /\ c.history[Len(c.history)].close # c.history[Len(c.history) - 1].close

\* the largest of three numbers
Largest(a, b, c) == CHOOSE m \in {a, b, c} : \A x \in {a, b, c} : x <= m

\* the true range of h[k]: max(high - low, |high - previous close|,
\* |low - previous close|), previous being h[k - 1]
TrueRangeAt(h, k) ==
    Largest(FSub(h[k].high, h[k].low),
            Abs(FSub(h[k].high, h[k - 1].close)),
            Abs(FSub(h[k].low, h[k - 1].close)))

RECURSIVE SumOfTrueRanges(_, _, _)
SumOfTrueRanges(h, from, to) ==
    IF from > to THEN 0 ELSE TrueRangeAt(h, from) + SumOfTrueRanges(h, from + 1, to)

\* C24: atr(period) returns 'unavailable' exactly when the buffer holds fewer
\* than period + 1 observations, and otherwise the mean of the period true
\* ranges of the last period observations, each taken against the
\* observation immediately before it in the buffer.
C24_Atr ==
    \A i \in 1 .. Len(helper_log) :
        LET c == helper_log[i]
            n == Len(c.history)
        IN  c.op = "atr" =>
              /\ c.ret = None <=> n < c.arg + 1
              /\ n >= c.arg + 1 =>
                    c.ret = Some(Round(SumOfTrueRanges(c.history, n - c.arg + 1, n), c.arg))

\* C24's case: atr over two true ranges, the last of them set by the previous
\* close and not by the bar's own high - low
C24_Witness ==
    \E i \in 1 .. Len(helper_log) :
        LET c == helper_log[i]
            n == Len(c.history)
        IN  /\ c.op = "atr"
            /\ c.arg = 2
            /\ c.ret # None
            /\ TrueRangeAt(c.history, n) > FSub(c.history[n].high, c.history[n].low)

\* C25: sma and atr are pure: a call changes neither the rolling buffer nor
\* any other strategy or portfolio state, and two calls with the same period
\* on the same buffer contents return the same result.
C25_HelpersPure ==
    /\ \A i \in 1 .. Len(helper_log) :
          LET c == helper_log[i]
          IN  c.op \in {"sma", "atr"} =>
                /\ HistoryAfter(i) = c.history
                /\ BarAfter(i) = c.bar
                /\ FieldsAfter(i) = c.fields
                /\ PortfolioAfter(i) = c.portfolio
    /\ \A i, j \in 1 .. Len(helper_log) :
          (/\ helper_log[i].op \in {"sma", "atr"}
           /\ helper_log[i].op = helper_log[j].op
           /\ helper_log[i].arg = helper_log[j].arg
           /\ helper_log[i].history = helper_log[j].history)
          => helper_log[i].ret = helper_log[j].ret

\* C25's case: sma called twice in a row with the same period on a buffer
\* that holds enough observations, then atr called
C25_Witness ==
    /\ Len(helper_log) >= 3
    /\ LET n == Len(helper_log)
       IN  /\ helper_log[n].op = "atr"
           /\ helper_log[n - 1].op = "sma"
           /\ helper_log[n - 2].op = "sma"
           /\ helper_log[n - 1].arg = helper_log[n - 2].arg
           /\ helper_log[n - 1].ret # None

-----------------------------------------------------------------------------
(* Claims about the list returned by Portfolio.trades (SpecTrades) *)

\* a step of the portfolio's own operations, made while a caller holds a list
PortfolioStepWithSnapshot == snap.taken /\ snap' = snap /\ nops' # nops /\ last' # last

\* a step in which the caller changes the list it holds or a record in it
SnapshotChangeStep ==
    /\ snap.taken
    /\ nops' # nops
    /\ last' = last
    /\ history' = history
    /\ snap'.refs # TradesCopy \/ snap' = snap

\* C26: the trade log returned by the Portfolio.trades query is an immutable
\* snapshot: its contents (each record's timestamp field included) are not
\* changed by any later buy, sell or update on the portfolio, and changing the
\* snapshot does not change the portfolio's own trade log.
\* Violated: the list is a shallow copy, its records are the portfolio's own
\* record objects; update() sets the datetime of the last record, which the
\* snapshot shows, and a caller's change to a record changes the portfolio's.
C26_TradesSnapshot ==
    [][/\ PortfolioStepWithSnapshot => SnapshotContents' = SnapshotContents
       /\ SnapshotChangeStep => trades' = trades]_vars

\* the part of C26 that holds: the list itself is the caller's own; the
\* portfolio's operations neither lengthen nor shorten it and change none of
\* its records whose datetime is resolved, and shortening it leaves the
\* portfolio's log alone
SnapshotListIsACopy ==
    [][/\ PortfolioStepWithSnapshot =>
             /\ Len(SnapshotContents') = Len(SnapshotContents)
             /\ \A k \in 1 .. Len(snap.refs) :
                   SnapshotContents[k].datetime # None =>
                       SnapshotContents'[k] = SnapshotContents[k]
       /\ (SnapshotChangeStep /\ snap' # snap) => trades' = trades]_vars

-----------------------------------------------------------------------------
(* Claims about the growth of the trade log and the equity curve (Spec) *)

\* a step made by one call of buy, sell, sell_all or update
PortfolioCallStep ==
    /\ nops' = nops + 1
    /\ last'.op \in {"buy", "sell", "sell_all", "update"}

\* record r2 is record r1, or r1 with its unresolved datetime set
SameOrResolved(r1, r2) ==
    \/ r2 = r1
    \/ /\ r1.datetime = None
       /\ r2.datetime # None
       /\ r2 = [r1 EXCEPT !.datetime = r2.datetime]

-----------------------------------------------------------------------------
(* Claims about the Analyzer's trade statistics (SpecAnalyzer) *)

\* the price of the most recent BUY among the first k - 1 records, 0.0 when
\* there is none
LastBuyPriceBefore(k) ==
    LET buys == {j \in 1 .. k - 1 : trades[j].type = "BUY"}
    IN  IF buys = {} THEN 0
        ELSE trades[CHOOSE j \in buys : \A x \in buys : x <= j].price

\* the running position after the k-th record was replayed
RunningPositionAfter(k) ==
    IF k < Len(replay.trace) THEN replay.trace[k + 1].position ELSE replay.position

\* the outcomes the replayed records produced, in order
RECURSIVE OutcomesOf(_)
OutcomesOf(trace) ==
    IF trace = <<>> THEN <<>> ELSE Head(trace).pnl \o OutcomesOf(Tail(trace))

\* C29: for a non-empty equity curve the Analyzer replays the trade log in
\* order keeping a running position and entry price (the price of the most
\* recent BUY): each SELL met while the running position is > 0 produces
\* exactly one realized outcome (sell price - entry price) * sold size and
\* reduces the running position by the sold size; a SELL met while the
\* running position is <= 0 produces none and leaves the position.
C29_TradeReplay ==
    history # <<>> =>
        /\ Len(replay.trace) = replay.i - 1
        /\ replay.phase = "done" => Len(replay.trace) = Len(trades)
        /\ replay.realized_pnl = OutcomesOf(replay.trace)
        /\ \A k \in 1 .. Len(replay.trace) :
              LET t == trades[k]
                  before == replay.trace[k]
              IN  /\ k = 1 => before.position = 0
                  /\ before.entry_price = LastBuyPriceBefore(k)
                  /\ t.type = "BUY" =>
                        /\ before.pnl = None
                        /\ RunningPositionAfter(k) = FAdd(before.position, t.size)
                  /\ (t.type = "SELL" /\ before.position > 0) =>
                        /\ before.pnl =
                              Some(FMul(FSub(t.price, before.entry_price), t.size))
                        /\ RunningPositionAfter(k) = FSub(before.position, t.size)
                  /\ (t.type = "SELL" /\ before.position <= 0) =>
                        /\ before.pnl = None
                        /\ RunningPositionAfter(k) = before.position

\* C29's case: a finished replay met a SELL before any BUY, then two BUYs at
\* different prices, then a SELL that produced an outcome
C29_Witness ==
    /\ history # <<>>
    /\ replay.phase = "done"
    /\ Len(trades) = 4
    /\ trades[1].type = "SELL" /\ replay.trace[1].pnl = None
    /\ trades[2].type = "BUY" /\ trades[3].type = "BUY"
    /\ trades[2].price # trades[3].price
    /\ trades[4].type = "SELL" /\ replay.trace[4].pnl # None

\* gross of the outcomes that are wins (p > 0), or of the magnitudes of those
\* that are not, added in order
RECURSIVE GrossOf(_, _, _)
GrossOf(pnl, wins, acc) ==
    IF pnl = <<>> THEN acc
    ELSE LET p == Head(pnl)
         IN  IF wins /\ p > 0 THEN GrossOf(Tail(pnl), wins, FAdd(acc, p))
             ELSE IF ~wins /\ p <= 0 THEN GrossOf(Tail(pnl), wins, FAdd(acc, Abs(p)))
             ELSE GrossOf(Tail(pnl), wins, acc)

\* C30: win rate is the fraction of realized outcomes that are > 0 (reported
\* in percent, 0 when there are none); profit factor is gross positive
\* outcomes divided by the absolute gross of non-positive outcomes, and is
\* reported as 0 whenever that gross loss is 0, including when every realized
\* outcome is a win.
C30_WinRateAndProfitFactor ==
    (replay.phase = "done" /\ history # <<>>) =>
        LET pnl == replay.realized_pnl
            nwins == Cardinality({k \in 1 .. Len(pnl) : pnl[k] > 0})
            gross_profit == GrossOf(pnl, TRUE, 0)
            gross_loss == GrossOf(pnl, FALSE, 0)
            m == analyzer[1].metrics
        IN  /\ m.win_rate_pct =
                  IF pnl = <<>> THEN 0
                  ELSE PyRound(FMul(Flt(nwins, Len(pnl)), Flt(100, 1)), 2)
            /\ m.profit_factor =
                  IF gross_loss = 0 THEN 0
                  ELSE PyRound(FDiv(gross_profit, gross_loss), 3)

\* C30's case: every realized outcome is a win and the profit factor is 0
C30_Witness ==
    /\ replay.phase = "done"
    /\ history # <<>>
    /\ Len(replay.realized_pnl) >= 1
    /\ \A k \in 1 .. Len(replay.realized_pnl) : replay.realized_pnl[k] > 0
    /\ analyzer[1].metrics.win_rate_pct = Flt(100, 1)
    /\ analyzer[1].metrics.profit_factor = 0

\* a win and a loss: the profit factor is their ratio
ProfitFactorOfWinAndLoss ==
    /\ replay.phase = "done"
    /\ history # <<>>
    /\ \E k \in 1 .. Len(replay.realized_pnl) : replay.realized_pnl[k] > 0
    /\ \E k \in 1 .. Len(replay.realized_pnl) : replay.realized_pnl[k] < 0
    /\ analyzer[1].metrics.profit_factor > 0

\* the curve never falls below an earlier value
NeverFalls(eq) == \A j, k \in 1 .. Len(eq) : j < k => eq[j] <= eq[k]

\* (equity - running peak) / running peak at the k-th point, the running peak
\* being the largest equity among the first k points
DrawdownAt(eq, k) ==
    LET peak == CHOOSE m \in {eq[j] : j \in 1 .. k} : \A j \in 1 .. k : eq[j] <= m
    IN  FDiv(FSub(eq[k], peak), peak)

-----------------------------------------------------------------------------
(* Claims about Portfolio.reset (SpecReset) *)

\* C32: Portfolio.reset() returns the portfolio to the state it had right
\* after construction: cash = initial_cash, position = 0, entry_price = 0,
\* empty trade log and equity curve, and the same initial_cash and
\* min_trade_size it had, so that what follows behaves as on a freshly
\* constructed portfolio with the same configuration.
\* Violated: reset() passes initial_cash alone to __init__, so a
\* min_trade_size other than the default 0.1 becomes 0.1.
C32_ResetRestoresConstruction ==
    last.op = "reset" =>
        /\ cash = initial_cash
        /\ position = 0
        /\ entry_price = 0
        /\ trades = <<>>
        /\ history = <<>>
        /\ initial_cash = last.args.initial_cash
        /\ min_trade_size = last.args.min_trade_size

\* the part of C32 that holds: everything but min_trade_size is as after
\* construction, and min_trade_size too when it was the default
ResetRestoresAllButMinTradeSize ==
    last.op = "reset" =>
        /\ cash = initial_cash
        /\ position = 0
        /\ entry_price = 0
        /\ trades = <<>>
        /\ history = <<>>
        /\ initial_cash = last.args.initial_cash
        /\ min_trade_size = Flt(1, 10)

-----------------------------------------------------------------------------
(* Claims about SMA_ATR_Exit (SpecAtrExit) *)

\* the strategy exists and has its fields
HasStop == pc \notin {"idle"} /\ strat_fields # NoFields
Stop == strat_fields.trailing_stop_price
\* close - atr * multiplier for the bar b, the history h and the fields f
StopOf(b, h, f) ==
    FSub(b[1].close, FMul(Atr(h, f.atr_period)[1], f.atr_multiplier))
\* ... of the bar the strategy last saw
StopOfLastBar == StopOf(strat_bar, strat_history, strat_fields)
\* the step sold the whole open position / bought into a flat portfolio
SoldOut ==
    /\ position > Flt(1, 10) /\ position' = 0
    /\ Len(trades') = Len(trades) + 1
    /\ trades'[Len(trades')].type = "SELL"
NewEntry ==
    /\ position < Flt(1, 10) /\ position' > Flt(1, 10)
    /\ Len(trades') = Len(trades) + 1
    /\ trades'[Len(trades')].type = "BUY"

\* C33: the trailing stop of SMA_ATR_Exit is a ratchet: over every step on
\* which the strategy keeps the same open position (position > 0.1) the
\* trailing_stop_price does not decrease; it is lowered only by the reset
\* to 0 when the stop is hit and the position sold, or by being set afresh
\* (to close - atr * multiplier) at a new entry.
C33_StopRatchet ==
    [][HasStop /\ HasStop' =>
         /\ (position > Flt(1, 10) /\ position' = position) => Stop' >= Stop
         /\ Stop' < Stop =>
               \/ /\ SoldOut
                  /\ Stop' = 0
                  /\ bar[1].low <=
                       Max(Stop, StopOf(strat_bar', strat_history', strat_fields'))
               \/ /\ NewEntry
                  /\ Stop' = StopOf(strat_bar', strat_history', strat_fields')]_vars

\* a position bought on an earlier bar is held, and the stop stands above
\* where close - atr * multiplier of the present bar would put it
C33_Witness ==
    /\ pc = "update"
    /\ strategy_class = "SMA_ATR_Exit"
    /\ position > Flt(1, 10)
    /\ filled_at # <<>> /\ filled_at[Len(filled_at)] < bar_count
    /\ Stop > StopOfLastBar
    /\ Stop > 0

-----------------------------------------------------------------------------
(* Claims about the Portfolio's ledger (Spec, SpecReset, SpecEngine) *)

\* C34: in every state reachable by buy, sell, sell_all and update calls the
\* position is exactly 0 or at least min_trade_size.
C34_NoDustPosition == position = 0 \/ position >= min_trade_size

\* C34's case: a sell of part of the position left a position that is kept
C34_Witness ==
    /\ SellNotDropped
    /\ position < last.position
    /\ position > 0
    /\ min_trade_size = Flt(1, 1)

\* cash after the records log[1 .. k] are booked, in the order of the log, on
\* a start of c: a BUY takes its cost, a SELL adds its proceeds
RECURSIVE Booked(_, _, _)
Booked(c, log, k) ==
    IF k = 0 THEN c
    ELSE IF log[k].type = "BUY"
    THEN FSub(Booked(c, log, k - 1), log[k].cost)
    ELSE FAdd(Booked(c, log, k - 1), log[k].proceeds)

ValueAt(c, pos, p) == FAdd(c, FMul(pos, p))

\* C36: every filled buy or sell at price p leaves cash + position * p
\* unchanged.
\* Violated: a sell whose remainder is below min_trade_size sets the position
\* to 0 and pays nothing for the remainder.
C36_FillKeepsValue ==
    (BuyNotDropped \/ SellNotDropped) =>
        ValueAt(cash, position, last.args.price)
            = ValueAt(last.cash, last.position, last.args.price)

\* the part of C36 that holds: a filled sell moves exactly the proceeds of
\* the fill into cash, and what the position loses beyond the fill is the
\* remainder below min_trade_size, nothing else
FillMovesItsOwnValue ==
    /\ BuyNotDropped =>
          /\ cash = FSub(last.cash, FMul(BuyFill, last.args.price))
          /\ position = FAdd(last.position, BuyFill)
    /\ SellNotDropped =>
          /\ cash = FAdd(last.cash, FMul(SellFill, last.args.price))
          /\ position # FSub(last.position, SellFill) =>
                /\ position = 0
                /\ FSub(last.position, SellFill) < min_trade_size

\* C37: after Engine.run() over at least one bar (last close > 0) with the
\* default on_end, cash equals the last value of the equity curve.
C37_LiquidationKeepsEquity ==
    (Finished /\ feed_rows # <<>> /\ feed_rows[Len(feed_rows)].close > 0) =>
        /\ history # <<>>
        /\ cash = history[Len(history)][2]

\* C37's case: on_end sold a position worth more than it had cost
C37_Witness ==
    /\ Finished
    /\ last.op = "sell_all"
    /\ last.position > 0
    /\ cash # last.cash
    /\ cash > initial_cash
    /\ cash = history[Len(history)][2]

-----------------------------------------------------------------------------
(* Claims about the end of a run and a run after it (SpecEngine, SpecRuns) *)

\* C38: when on_end liquidates an open position, the SELL record it appends
\* (the last of the log) is still unresolved when the Analyzer is built and
\* when run() returns; every other trade that was the last fill of its bar's
\* next() is resolved, with that bar's datetime.
C38_OnEndSellUnresolved ==
    pc \in {"analyze", "done"} =>
        \A k \in 1 .. Len(filled_at) :
            /\ filled_at[k] = 0 =>
                  /\ k = Len(trades)
                  /\ trades[k].type = "SELL"
                  /\ trades[k].datetime = None
            /\ (filled_at[k] > 0
                  /\ (k = Len(filled_at) \/ filled_at[k + 1] # filled_at[k])) =>
                  trades[k].datetime = Some(feed_rows[filled_at[k]].datetime)

\* C38's case: run() has returned after on_end sold a position bought in an
\* earlier bar's next(); the buy is resolved, the liquidation is not
C38_Witness ==
    /\ Finished
    /\ Len(trades) >= 2
    /\ filled_at[Len(filled_at)] = 0
    /\ filled_at[Len(filled_at) - 1] > 0
    /\ trades[Len(trades)].datetime = None
    /\ trades[Len(trades) - 1].datetime # None
    /\ analyzer # None

\* the running run() is the second on its Engine, the first one returned
\* (having exhausted the feed), and nobody rewound the feed in between
SecondRunNotRewound ==
    /\ Len(runs) = 1
    /\ runs[1].outcome = "done"
    /\ feed_log = <<>>

\* C39: run() does not rewind its Feed: a second run() on an Engine whose
\* Feed the first run exhausted, not rewound, gets no bar, calls on_start and
\* on_end only, and returns the Analyzer of an untouched portfolio (no
\* trades, empty equity curve, total_equity = initial_cash, every other
\* figure 0); it does not raise.
C39_SecondRunIsEmpty ==
    SecondRunNotRewound =>
        /\ ~FeedHasNext
        /\ bar_count = 0
        /\ pc # "raised"
        /\ Finished =>
              /\ calls = <<Call("on_start", None), Call("on_end", None)>>
              /\ trades = <<>>
              /\ history = <<>>
              /\ analyzer[1].bar_count = 0
              /\ analyzer[1].metrics =
                    [total_return_pct |-> 0, total_equity |-> initial_cash,
                     cagr_pct |-> 0, sharpe |-> 0, volatility_annualized |-> 0,
                     max_drawdown_pct |-> 0, num_trades |-> 0, win_rate_pct |-> 0,
                     profit_factor |-> 0]

\* C39's case: the second run has returned, after a first run that traded
\* over at least two bars and returned another result
C39_Witness ==
    /\ SecondRunNotRewound
    /\ Finished
    /\ Len(runs[1].history) >= 2
    /\ runs[1].trades # <<>>
    /\ runs[1].analyzer # analyzer

\* C40: in the metrics of the Analyzer run() returns over a non-empty run,
\* 'symbol', 'strategy' and 'bar_count' are the Feed's symbol, the strategy's
\* name and the number of bars processed.
\* Violated: the metrics are computed by Analyzer.__init__, before run()
\* assigns symbol, strategy_name and bar_count; they hold None, None and 0.
C40_MetricsTags ==
    (Finished /\ bar_count > 0) =>
        /\ analyzer[1].metrics.symbol = feed_symbol
        /\ analyzer[1].metrics.strategy = Some(StrategyName)
        /\ analyzer[1].metrics.bar_count = bar_count

\* what holds instead: the three entries are those of an untagged Analyzer,
\* while the Analyzer's attributes carry the tags
MetricsTagsAreStale ==
    (Finished /\ bar_count > 0) =>
        /\ analyzer[1].metrics.symbol = None
        /\ analyzer[1].metrics.strategy = None
        /\ analyzer[1].metrics.bar_count = 0
        /\ analyzer[1].symbol = feed_symbol
        /\ analyzer[1].strategy_name = Some(StrategyName)
        /\ analyzer[1].bar_count = bar_count

====
